---- MODULE Spec2Model ----
(***************************************************************************)
(* The Gmail MCP server: its MIME email codec (src/gmail/utils.rs), the    *)
(* read and send paths of the client, token refresh, batch and label       *)
(* operations, and the stdio JSON-RPC server (src/mcp).                    *)
(*                                                                         *)
(* A Rust String or &str is modelled as the sequence of its UTF-8 bytes    *)
(* (naturals below 256), a Vec as a sequence, an Option as a sequence of   *)
(* length 0 (None) or 1 (Some), and a Result as a record with an ok flag.  *)
(***************************************************************************)
EXTENDS Integers, Sequences, FiniteSets, Bags, TLC

VARIABLES
    params,       \* EmailParams handed to create_email_message
    clock,        \* the readings SystemTime::now() will give, in call order
    composed,     \* Result<String> of create_email_message
    message,      \* the Message the mail API returns to get_message
    fetch_ok,     \* whether get_message succeeds
    content,      \* Option<EmailContent>: result of extract_email_content
    attachments,  \* Option<Vec<EmailAttachment>>: result of extract_attachments
    read_result,  \* Option<Result<ReadMessageResult>>: result of read_message
    arg,          \* the arguments of a call of one of the codec's pure functions
    ret,          \* Option of what that call returned
    credentials,  \* Authenticator::credentials: Option<StoredCredentials> in memory
    cred_file,    \* the credentials file: Option<StoredCredentials> on disk
    lock_readers, \* read guards held on the RwLock around credentials
    unix_now,     \* the wall clock, in seconds since the epoch
    call,         \* the client call in flight and where it stands
    api_requests, \* the requests issued to the mail API so far
    outcome,      \* Option<Result>: what the caller of the client call got
    stdin,        \* the input lines the server has not read yet
    stdout,       \* the JsonRpcResponse lines the server has written
    initialized,  \* McpServer::initialized
    server_pc,    \* where run_stdio stands
    handled       \* history: each line read, with the responses written for it

composeVars == <<params, clock, composed>>
readVars == <<message, fetch_ok, content, attachments, read_result>>
callVars == <<arg, ret>>
clientVars == <<credentials, cred_file, lock_readers, unix_now, call, api_requests, outcome>>
serverVars == <<stdin, stdout, initialized, server_pc, handled>>
vars == <<composeVars, readVars, callVars, clientVars, serverVars>>

---------------------------------------------------------------------------
(* Option and Result *)

None == <<>>
Some(x) == <<x>>
IsSome(o) == Len(o) = 1
Unwrap(o) == o[1]
UnwrapOr(o, d) == IF IsSome(o) THEN o[1] ELSE d

Ok(v) == [ok |-> TRUE, val |-> v]
Err(e) == [ok |-> FALSE, err |-> e]

---------------------------------------------------------------------------
(* String helpers (str::starts_with, slice::join, str::split) *)

StartsWith(s, p) == Len(s) >= Len(p) /\ SubSeq(s, 1, Len(p)) = p
EndsWith(s, p) == Len(s) >= Len(p) /\ SubSeq(s, Len(s) - Len(p) + 1, Len(s)) = p
Contains(s, c) == \E i \in 1..Len(s) : s[i] = c

RECURSIVE Join(_, _)
Join(strs, sep) ==
    IF strs = <<>> THEN <<>>
    ELSE IF Len(strs) = 1 THEN strs[1]
    ELSE strs[1] \o sep \o Join(Tail(strs), sep)

RECURSIVE Concat(_)
Concat(strs) == IF strs = <<>> THEN <<>> ELSE Head(strs) \o Concat(Tail(strs))

\* str::split(c): the pieces between the occurrences of c (always at least one)
RECURSIVE SplitChar(_, _)
SplitChar(s, c) ==
    IF ~Contains(s, c) THEN <<s>>
    ELSE LET i == CHOOSE k \in 1..Len(s) : s[k] = c /\ \A j \in 1..(k - 1) : s[j] # c
         IN  <<SubSeq(s, 1, i - 1)>> \o SplitChar(SubSeq(s, i + 1, Len(s)), c)

---------------------------------------------------------------------------
(* String literals of the source, as UTF-8 bytes *)

\* "From: me"  (utils.rs:293)
S_FromMe == <<70,114,111,109,58,32,109,101>>
\* "To: "  (utils.rs:294)
S_To == <<84,111,58,32>>
\* ", "  (utils.rs:294)
S_CommaSpace == <<44,32>>
\* "Cc: "  (utils.rs:298)
S_Cc == <<67,99,58,32>>
\* "Bcc: "  (utils.rs:304)
S_Bcc == <<66,99,99,58,32>>
\* "Subject: "  (utils.rs:308)
S_Subject == <<83,117,98,106,101,99,116,58,32>>
\* "In-Reply-To: "  (utils.rs:311)
S_InReplyTo == <<73,110,45,82,101,112,108,121,45,84,111,58,32>>
\* "References: "  (utils.rs:312)
S_References == <<82,101,102,101,114,101,110,99,101,115,58,32>>
\* "MIME-Version: 1.0"  (utils.rs:315)
S_MimeVersion == <<77,73,77,69,45,86,101,114,115,105,111,110,58,32,49,46,48>>
\* "----=_MixedPart_"  (utils.rs:319)
S_MixedPrefix == <<45,45,45,45,61,95,77,105,120,101,100,80,97,114,116,95>>
\* "----=_AltPart_"  (utils.rs:331)
S_AltPrefix == <<45,45,45,45,61,95,65,108,116,80,97,114,116,95>>
\* "----=_NextPart_"  (utils.rs:397)
S_NextPrefix == <<45,45,45,45,61,95,78,101,120,116,80,97,114,116,95>>
\* "Content-Type: multipart/mixed; boundary=\""  (utils.rs:321)
S_CTMixed == <<67,111,110,116,101,110,116,45,84,121,112,101,58,32,109,117,108,116,105,112,97,114,116,47,109,105,120,101,100,59,32,98,111,117,110,100,97,114,121,61,34>>
\* "Content-Type: multipart/alternative; boundary=\""  (utils.rs:333)
S_CTAlternative == <<67,111,110,116,101,110,116,45,84,121,112,101,58,32,109,117,108,116,105,112,97,114,116,47,97,108,116,101,114,110,97,116,105,118,101,59,32,98,111,117,110,100,97,114,121,61,34>>
\* "\""  (utils.rs:321)
S_Quote == <<34>>
\* "--"  (utils.rs:327)
S_Dashes == <<45,45>>
\* "Content-Type: text/plain; charset=UTF-8"  (utils.rs:340)
S_CTPlain == <<67,111,110,116,101,110,116,45,84,121,112,101,58,32,116,101,120,116,47,112,108,97,105,110,59,32,99,104,97,114,115,101,116,61,85,84,70,45,56>>
\* "Content-Type: text/html; charset=UTF-8"  (utils.rs:348)
S_CTHtml == <<67,111,110,116,101,110,116,45,84,121,112,101,58,32,116,101,120,116,47,104,116,109,108,59,32,99,104,97,114,115,101,116,61,85,84,70,45,56>>
\* "Content-Transfer-Encoding: 7bit"  (utils.rs:341)
S_CTE7bit == <<67,111,110,116,101,110,116,45,84,114,97,110,115,102,101,114,45,69,110,99,111,100,105,110,103,58,32,55,98,105,116>>
\* "Content-Type: "  (utils.rs:373)
S_CT == <<67,111,110,116,101,110,116,45,84,121,112,101,58,32>>
\* "; name=\""  (utils.rs:373)
S_Name == <<59,32,110,97,109,101,61,34>>
\* "Content-Transfer-Encoding: base64"  (utils.rs:377)
S_CTEBase64 == <<67,111,110,116,101,110,116,45,84,114,97,110,115,102,101,114,45,69,110,99,111,100,105,110,103,58,32,98,97,115,101,54,52>>
\* "Content-Disposition: attachment; filename=\""  (utils.rs:379)
S_Disposition == <<67,111,110,116,101,110,116,45,68,105,115,112,111,115,105,116,105,111,110,58,32,97,116,116,97,99,104,109,101,110,116,59,32,102,105,108,101,110,97,109,101,61,34>>
\* "\r\n"  (utils.rs:436)
S_CRLF == <<13,10>>
\* "=?UTF-8?B?"  (utils.rs:38)
S_EncodedWordOpen == <<61,63,85,84,70,45,56,63,66,63>>
\* "?="  (utils.rs:38)
S_EncodedWordClose == <<63,61>>
\* "text/"  (utils.rs:89)
S_TextSlash == <<116,101,120,116,47>>
\* "text/plain"  (utils.rs:92)
S_TextPlain == <<116,101,120,116,47,112,108,97,105,110>>
\* "text/html"  (utils.rs:94)
S_TextHtml == <<116,101,120,116,47,104,116,109,108>>
\* "attachment-"  (utils.rs:143)
S_AttachmentDash == <<97,116,116,97,99,104,109,101,110,116,45>>
\* "application/octet-stream"  (utils.rs:151)
S_OctetStream == <<97,112,112,108,105,99,97,116,105,111,110,47,111,99,116,101,116,45,115,116,114,101,97,109>>

\* "multipart/alternative"  (tools.rs:105)
S_MultipartAlternative ==
    <<109,117,108,116,105,112,97,114,116,47,97,108,116,101,114,110,97,116,105,118,101>>

CH_At == 64
CH_Space == 32
CH_Dot == 46
CH_CR == 13
CH_LF == 10
CH_Pad == 61

---------------------------------------------------------------------------
(* base64 engines (general_purpose::STANDARD, URL_SAFE, URL_SAFE_NO_PAD) *)

\* the symbol of a 6-bit value in the standard or the URL-safe alphabet
B64Symbol(v, url) ==
    IF v < 26 THEN 65 + v
    ELSE IF v < 52 THEN 97 + (v - 26)
    ELSE IF v < 62 THEN 48 + (v - 52)
    ELSE IF v = 62 THEN (IF url THEN 45 ELSE 43)
    ELSE (IF url THEN 95 ELSE 47)

\* the 6-bit value of a symbol, -1 for a byte outside the alphabet
B64Value(c, url) ==
    IF c >= 65 /\ c <= 90 THEN c - 65
    ELSE IF c >= 97 /\ c <= 122 THEN c - 97 + 26
    ELSE IF c >= 48 /\ c <= 57 THEN c - 48 + 52
    ELSE IF c = (IF url THEN 45 ELSE 43) THEN 62
    ELSE IF c = (IF url THEN 95 ELSE 47) THEN 63
    ELSE -1

RECURSIVE B64EncodeFrom(_, _, _, _)
B64EncodeFrom(b, i, url, pad) ==
    LET n == Len(b) - i + 1
    IN  IF n <= 0 THEN <<>>
        ELSE IF n = 1 THEN
            <<B64Symbol(b[i] \div 4, url), B64Symbol((b[i] % 4) * 16, url)>>
                \o (IF pad THEN <<CH_Pad, CH_Pad>> ELSE <<>>)
        ELSE IF n = 2 THEN
            <<B64Symbol(b[i] \div 4, url),
              B64Symbol((b[i] % 4) * 16 + (b[i + 1] \div 16), url),
              B64Symbol((b[i + 1] % 16) * 4, url)>>
                \o (IF pad THEN <<CH_Pad>> ELSE <<>>)
        ELSE
            <<B64Symbol(b[i] \div 4, url),
              B64Symbol((b[i] % 4) * 16 + (b[i + 1] \div 16), url),
              B64Symbol((b[i + 1] % 16) * 4 + (b[i + 2] \div 64), url),
              B64Symbol(b[i + 2] % 64, url)>>
                \o B64EncodeFrom(b, i + 3, url, pad)

\* Engine::encode
B64Encode(b, url, pad) == B64EncodeFrom(b, 1, url, pad)

\* number of '=' bytes ending s
RECURSIVE TrailingPads(_)
TrailingPads(s) ==
    IF s # <<>> /\ s[Len(s)] = CH_Pad
    THEN 1 + TrailingPads(SubSeq(s, 1, Len(s) - 1))
    ELSE 0

RECURSIVE B64DecodeFrom(_, _, _)
B64DecodeFrom(d, i, url) ==
    LET n == Len(d) - i + 1
        v(k) == B64Value(d[i + k], url)
    IN  IF n <= 0 THEN <<>>
        ELSE IF n = 2 THEN <<v(0) * 4 + (v(1) \div 16)>>
        ELSE IF n = 3 THEN
            <<v(0) * 4 + (v(1) \div 16), (v(1) % 16) * 16 + (v(2) \div 4)>>
        ELSE
            <<v(0) * 4 + (v(1) \div 16),
              (v(1) % 16) * 16 + (v(2) \div 4),
              (v(2) % 4) * 64 + v(3)>>
                \o B64DecodeFrom(d, i + 4, url)

\* Engine::decode: padded says whether the engine requires canonical padding
\* (STANDARD, URL_SAFE) or forbids padding (URL_SAFE_NO_PAD); neither engine
\* accepts non-zero trailing bits.
B64Decode(s, url, padded) ==
    LET np == TrailingPads(s)
        d == SubSeq(s, 1, Len(s) - np)
        r == Len(d) % 4
        valid ==
            /\ \A k \in 1..Len(d) : B64Value(d[k], url) >= 0
            /\ np <= 2
            /\ r # 1
            /\ IF padded THEN (Len(d) + np) % 4 = 0 ELSE np = 0
            /\ r = 2 => B64Value(d[Len(d)], url) % 16 = 0
            /\ r = 3 => B64Value(d[Len(d)], url) % 4 = 0
    IN  IF valid THEN Ok(B64DecodeFrom(d, 1, url)) ELSE Err("base64 data")

\* String::from_utf8: whether the bytes from index i on are well-formed UTF-8
RECURSIVE IsUtf8From(_, _)
IsUtf8From(b, i) ==
    LET n == Len(b) - i + 1
        cont(k) == b[i + k] >= 128 /\ b[i + k] <= 191
    IN  IF n <= 0 THEN TRUE
        ELSE IF b[i] <= 127 THEN IsUtf8From(b, i + 1)
        ELSE IF b[i] >= 194 /\ b[i] <= 223 THEN
            n >= 2 /\ cont(1) /\ IsUtf8From(b, i + 2)
        ELSE IF b[i] >= 224 /\ b[i] <= 239 THEN
            /\ n >= 3 /\ cont(1) /\ cont(2)
            /\ b[i] = 224 => b[i + 1] >= 160
            /\ b[i] = 237 => b[i + 1] <= 159
            /\ IsUtf8From(b, i + 3)
        ELSE IF b[i] >= 240 /\ b[i] <= 244 THEN
            /\ n >= 4 /\ cont(1) /\ cont(2) /\ cont(3)
            /\ b[i] = 240 => b[i + 1] >= 144
            /\ b[i] = 244 => b[i + 1] <= 143
            /\ IsUtf8From(b, i + 4)
        ELSE FALSE

IsUtf8(b) == IsUtf8From(b, 1)

---------------------------------------------------------------------------
(* utils.rs: validation, header encoding, transport codec *)

\* faulty variant: a domain ending in '.' is let through
validate_email_TrailingDot(email) ==
    LET parts == SplitChar(email, CH_At)
    IN  IF Len(parts) # 2 THEN FALSE
        ELSE LET local == parts[1]
                 domain == parts[2]
             IN  /\ local # <<>>
                 /\ domain # <<>>
                 /\ ~Contains(local, CH_Space)
                 /\ ~Contains(domain, CH_Space)
                 /\ Contains(domain, CH_Dot)
                 /\ ~StartsWith(domain, <<CH_Dot>>)

validate_email(email) ==
    LET parts == SplitChar(email, CH_At)
    IN  IF Len(parts) # 2 THEN FALSE
        ELSE LET local == parts[1]
                 domain == parts[2]
             IN  /\ local # <<>>
                 /\ domain # <<>>
                 /\ ~Contains(local, CH_Space)
                 /\ ~Contains(domain, CH_Space)
                 /\ Contains(domain, CH_Dot)
                 /\ ~StartsWith(domain, <<CH_Dot>>)
                 /\ ~EndsWith(domain, <<CH_Dot>>)

\* faulty variant: only non-ASCII characters trigger the encoding
encode_mime_header_AsciiOnly(text) ==
    IF \A i \in 1..Len(text) : text[i] < 128
    THEN text
    ELSE S_EncodedWordOpen \o B64Encode(text, FALSE, TRUE) \o S_EncodedWordClose

encode_mime_header(text) ==
    IF \A i \in 1..Len(text) : text[i] < 128 /\ text[i] # CH_CR /\ text[i] # CH_LF
    THEN text
    ELSE S_EncodedWordOpen \o B64Encode(text, FALSE, TRUE) \o S_EncodedWordClose

\* faulty variant: the message is encoded with the standard alphabet, unpadded
encode_raw_message_Standard(msg) == B64Encode(msg, FALSE, FALSE)

encode_raw_message(msg) == B64Encode(msg, TRUE, FALSE)

\* faulty variant: the standard alphabet is never tried
decode_base64url_UrlOnly(data) ==
    LET r1 == B64Decode(data, TRUE, FALSE)
        r2 == B64Decode(data, TRUE, TRUE)
    IN  IF r1.ok THEN r1
        ELSE IF r2.ok THEN r2
        ELSE Err("base64 data")

decode_base64url(data) ==
    LET r1 == B64Decode(data, TRUE, FALSE)
        r2 == B64Decode(data, TRUE, TRUE)
        r3 == B64Decode(data, FALSE, TRUE)
    IN  IF r1.ok THEN r1
        ELSE IF r2.ok THEN r2
        ELSE IF r3.ok THEN r3
        ELSE Err("base64 data")

decode_base64url_string(data) ==
    LET bytes == decode_base64url(data)
    IN  IF ~bytes.ok THEN bytes
        ELSE IF IsUtf8(bytes.val) THEN Ok(bytes.val)
        ELSE Err("UTF-8 content")

---------------------------------------------------------------------------
(* utils.rs: MIME tree extraction *)

\* EmailContent::default()
EmptyContent == [text |-> <<>>, html |-> <<>>]

\* faulty variant: when decoding fails the raw data is kept as the text
OwnContent_RawOnFailure(message_part) ==
    LET mime_type == UnwrapOr(message_part.mime_type, <<>>)
    IN  IF /\ IsSome(message_part.body)
           /\ IsSome(Unwrap(message_part.body).data)
           /\ StartsWith(mime_type, S_TextSlash)
        THEN LET data == Unwrap(Unwrap(message_part.body).data)
                 decoded == decode_base64url_string(data)
                 value == IF decoded.ok THEN decoded.val ELSE data
             IN  IF mime_type = S_TextPlain THEN [EmptyContent EXCEPT !.text = value]
                 ELSE IF mime_type = S_TextHtml THEN [EmptyContent EXCEPT !.html = value]
                 ELSE EmptyContent
        ELSE EmptyContent

\* the part's own contribution: the if-let block at the head of extract_email_content
OwnContent(message_part) ==
    LET mime_type == UnwrapOr(message_part.mime_type, <<>>)
    IN  IF /\ IsSome(message_part.body)
           /\ IsSome(Unwrap(message_part.body).data)
           /\ StartsWith(mime_type, S_TextSlash)
        THEN LET decoded == decode_base64url_string(Unwrap(Unwrap(message_part.body).data))
             IN  IF decoded.ok
                 THEN IF mime_type = S_TextPlain THEN [EmptyContent EXCEPT !.text = decoded.val]
                      ELSE IF mime_type = S_TextHtml THEN [EmptyContent EXCEPT !.html = decoded.val]
                      ELSE EmptyContent
                 ELSE EmptyContent      \* logged with tracing::debug!, processing continues
        ELSE EmptyContent

\* str::push_str
PushStr(s, t) == s \o t

\* faulty variant: a later part's text replaces what was gathered before
MergeNested_Replace(c, nested) ==
    [text |-> IF nested.text # <<>> THEN nested.text ELSE c.text,
     html |-> IF nested.html # <<>> THEN nested.html ELSE c.html]

\* one turn of the loop over message_part.parts
MergeNested(c, nested) ==
    [text |-> IF nested.text # <<>>
              THEN (IF c.text = <<>> THEN nested.text ELSE PushStr(c.text, nested.text))
              ELSE c.text,
     html |-> IF nested.html # <<>>
              THEN (IF c.html = <<>> THEN nested.html ELSE PushStr(c.html, nested.html))
              ELSE c.html]

RECURSIVE extract_email_content(_)
RECURSIVE ExtractNestedFrom(_, _, _)
ExtractNestedFrom(c, parts, i) ==
    IF i > Len(parts) THEN c
    ELSE ExtractNestedFrom(MergeNested(c, extract_email_content(parts[i])), parts, i + 1)

extract_email_content(message_part) ==
    ExtractNestedFrom(OwnContent(message_part), message_part.parts, 1)

\* faulty variant: a part that has inline data is not taken for an attachment
OwnAttachment_NotInline(part) ==
    IF /\ IsSome(part.body) /\ IsSome(Unwrap(part.body).attachment_id)
       /\ ~IsSome(Unwrap(part.body).data)
    THEN LET body == Unwrap(part.body)
             attachment_id == Unwrap(body.attachment_id)
         IN  <<[id |-> attachment_id,
                filename |-> UnwrapOr(part.filename, S_AttachmentDash \o attachment_id),
                mime_type |-> UnwrapOr(part.mime_type, S_OctetStream),
                size |-> body.size]>>
    ELSE <<>>

\* the descriptors the part itself pushes (none or one)
OwnAttachment(part) ==
    IF IsSome(part.body) /\ IsSome(Unwrap(part.body).attachment_id)
    THEN LET body == Unwrap(part.body)
             attachment_id == Unwrap(body.attachment_id)
         IN  <<[id |-> attachment_id,
                filename |-> UnwrapOr(part.filename, S_AttachmentDash \o attachment_id),
                mime_type |-> UnwrapOr(part.mime_type, S_OctetStream),
                size |-> body.size]>>
    ELSE <<>>

RECURSIVE extract_attachments_recursive(_, _)
RECURSIVE ExtractSubpartsFrom(_, _, _)
ExtractSubpartsFrom(subparts, i, atts) ==
    IF i > Len(subparts) THEN atts
    ELSE ExtractSubpartsFrom(subparts, i + 1, extract_attachments_recursive(subparts[i], atts))

extract_attachments_recursive(part, atts) ==
    ExtractSubpartsFrom(part.parts, 1, atts \o OwnAttachment(part))

extract_attachments(message_part) == extract_attachments_recursive(message_part, <<>>)

\* u8::to_ascii_lowercase, as eq_ignore_ascii_case compares
AsciiLower(c) == IF c >= 65 /\ c <= 90 THEN c + 32 ELSE c
EqIgnoreAsciiCase(a, b) ==
    Len(a) = Len(b) /\ \A i \in 1..Len(a) : AsciiLower(a[i]) = AsciiLower(b[i])

\* faulty variant: of several matching headers the last one is returned
find_header_Last(part, name) ==
    LET hit == {i \in 1..Len(part.headers) : EqIgnoreAsciiCase(part.headers[i].name, name)}
    IN  IF hit = {} THEN None
        ELSE Some(part.headers[CHOOSE i \in hit : \A j \in hit : i >= j].value)

find_header(part, name) ==
    LET hit == {i \in 1..Len(part.headers) : EqIgnoreAsciiCase(part.headers[i].name, name)}
    IN  IF hit = {} THEN None
        ELSE Some(part.headers[CHOOSE i \in hit : \A j \in hit : i <= j].value)

---------------------------------------------------------------------------
(* client.rs: GmailClient::read_message *)

H_subject == <<115,117,98,106,101,99,116>>   \* "subject"
H_from == <<102,114,111,109>>                \* "from"
H_to == <<116,111>>                          \* "to"
H_date == <<100,97,116,101>>                 \* "date"

\* payload.and_then(|p| find_header(p, name)).unwrap_or("")
HeaderOrEmpty(payload, name) ==
    IF IsSome(payload) THEN UnwrapOr(find_header(Unwrap(payload), name), <<>>) ELSE <<>>

\* faulty variant: the flag is set whenever there is no plain text
IsHtmlOnly_NoText(c) == c.text = <<>>

\* content.text.is_empty() && !content.html.is_empty()
IsHtmlOnly(c) == c.text = <<>> /\ c.html # <<>>

\* faulty variant: without text or html the body is left empty, the snippet unused
BodyWithFallback_NoSnippet(c, snippet) ==
    IF c.text # <<>> THEN
        [body |-> c.text, html_body |-> IF c.html = <<>> THEN None ELSE Some(c.html)]
    ELSE IF c.html # <<>> THEN
        [body |-> c.html, html_body |-> Some(c.html)]
    ELSE
        [body |-> <<>>, html_body |-> None]

\* the (body, html_body) pair chosen from the extracted content and the snippet
BodyWithFallback(c, snippet) ==
    IF c.text # <<>> THEN
        [body |-> c.text, html_body |-> IF c.html = <<>> THEN None ELSE Some(c.html)]
    ELSE IF c.html # <<>> THEN
        [body |-> c.html, html_body |-> Some(c.html)]
    ELSE
        [body |-> UnwrapOr(snippet, <<>>), html_body |-> None]

read_message(msg, got) ==
    IF ~got THEN Err("RequestFailed")
    ELSE LET payload == msg.payload
             c == IF IsSome(payload) THEN extract_email_content(Unwrap(payload))
                  ELSE EmptyContent
             atts == IF IsSome(payload) THEN extract_attachments(Unwrap(payload)) ELSE <<>>
             is_html_only == IsHtmlOnly(c)
             chosen == BodyWithFallback(c, msg.snippet)
         IN  Ok([id |-> msg.id,
                 thread_id |-> UnwrapOr(msg.thread_id, <<>>),
                 subject |-> HeaderOrEmpty(payload, H_subject),
                 from |-> HeaderOrEmpty(payload, H_from),
                 to |-> HeaderOrEmpty(payload, H_to),
                 date |-> HeaderOrEmpty(payload, H_date),
                 body |-> chosen.body,
                 html_body |-> chosen.html_body,
                 is_html_only |-> is_html_only,
                 attachments |-> atts])

---------------------------------------------------------------------------
(* utils.rs: create_email_message *)

HexDigit(d) == IF d < 10 THEN 48 + d ELSE 97 + (d - 10)

\* format!("{:x}", n)
RECURSIVE ToHex(_)
ToHex(n) == IF n < 16 THEN <<HexDigit(n)>> ELSE ToHex(n \div 16) \o <<HexDigit(n % 16)>>

\* timestamp is the clock reading in nanoseconds since the epoch
generate_boundary(timestamp) == ToHex(timestamp)

MixedBoundary(timestamp) == S_MixedPrefix \o generate_boundary(timestamp)
\* faulty variant: the nested section reuses the prefix of the mixed section
AltBoundary_MixedPrefix(timestamp) == S_MixedPrefix \o generate_boundary(timestamp)

AltBoundary(timestamp) == S_AltPrefix \o generate_boundary(timestamp)
NextBoundary(timestamp) == S_NextPrefix \o generate_boundary(timestamp)

\* faulty variant: the loop keeps going and reports the last failing address
RECURSIVE LastInvalid(_)
LastInvalid(to) ==
    IF to = <<>> THEN None
    ELSE IF ~validate_email(to[Len(to)]) THEN Some(to[Len(to)])
    ELSE LastInvalid(SubSeq(to, 1, Len(to) - 1))

\* the first address of `to` that fails validation, if any (the loop at the head)
RECURSIVE FirstInvalid(_)
FirstInvalid(to) ==
    IF to = <<>> THEN None
    ELSE IF ~validate_email(Head(to)) THEN Some(Head(to))
    ELSE FirstInvalid(Tail(to))

\* faulty variant: an absent hint counts as HTML
EffectiveMimeType_DefaultHtml(p) == UnwrapOr(p.mime_type, "TextHtml")

EffectiveMimeType(p) == UnwrapOr(p.mime_type, "TextPlain")
HasAttachments(p) == IF IsSome(p.attachments) THEN Unwrap(p.attachments) # <<>> ELSE FALSE
\* faulty variant: the content-type hint is not consulted
UseHtml_IgnoresHint(p) == IsSome(p.html_body)

UseHtml(p) == IsSome(p.html_body) /\ EffectiveMimeType(p) # "TextPlain"

\* params.html_body.clone().unwrap_or_else(|| params.body.clone())
HtmlOrBody(p) == UnwrapOr(p.html_body, p.body)

\* faulty variant: the Bcc line is written before the Cc line
HeaderLines_BccFirst(p) ==
    <<S_FromMe, S_To \o Join(p.to, S_CommaSpace)>>
    \o (IF IsSome(p.bcc) /\ Unwrap(p.bcc) # <<>>
        THEN <<S_Bcc \o Join(Unwrap(p.bcc), S_CommaSpace)>> ELSE <<>>)
    \o (IF IsSome(p.cc) /\ Unwrap(p.cc) # <<>>
        THEN <<S_Cc \o Join(Unwrap(p.cc), S_CommaSpace)>> ELSE <<>>)
    \o <<S_Subject \o encode_mime_header(p.subject)>>
    \o (IF IsSome(p.in_reply_to)
        THEN <<S_InReplyTo \o Unwrap(p.in_reply_to), S_References \o Unwrap(p.in_reply_to)>>
        ELSE <<>>)
    \o <<S_MimeVersion>>

HeaderLines(p) ==
    <<S_FromMe, S_To \o Join(p.to, S_CommaSpace)>>
    \o (IF IsSome(p.cc) /\ Unwrap(p.cc) # <<>>
        THEN <<S_Cc \o Join(Unwrap(p.cc), S_CommaSpace)>> ELSE <<>>)
    \o (IF IsSome(p.bcc) /\ Unwrap(p.bcc) # <<>>
        THEN <<S_Bcc \o Join(Unwrap(p.bcc), S_CommaSpace)>> ELSE <<>>)
    \o <<S_Subject \o encode_mime_header(p.subject)>>
    \o (IF IsSome(p.in_reply_to)
        THEN <<S_InReplyTo \o Unwrap(p.in_reply_to), S_References \o Unwrap(p.in_reply_to)>>
        ELSE <<>>)
    \o <<S_MimeVersion>>

\* faulty variant: the alternative section is left without its closing delimiter
AlternativeLines_Unclosed(p, boundary) ==
    <<S_CTAlternative \o boundary \o S_Quote, <<>>,
      S_Dashes \o boundary, S_CTPlain, S_CTE7bit, <<>>, p.body, <<>>,
      S_Dashes \o boundary, S_CTHtml, S_CTE7bit, <<>>, HtmlOrBody(p), <<>> >>

\* a multipart/alternative section with the plain and the HTML part
AlternativeLines(p, boundary) ==
    <<S_CTAlternative \o boundary \o S_Quote, <<>>,
      S_Dashes \o boundary, S_CTPlain, S_CTE7bit, <<>>, p.body, <<>>,
      S_Dashes \o boundary, S_CTHtml, S_CTE7bit, <<>>, HtmlOrBody(p), <<>>,
      S_Dashes \o boundary \o S_Dashes>>

HtmlOnlyLines(p) == <<S_CTHtml, S_CTE7bit, <<>>, HtmlOrBody(p)>>
PlainLines(p) == <<S_CTPlain, S_CTE7bit, <<>>, p.body>>

LineWidth == 76

\* faulty variant: slice::chunks_exact(n), which leaves out a shorter last chunk
RECURSIVE Chunks_Exact(_, _)
Chunks_Exact(s, n) ==
    IF Len(s) < n THEN <<>>
    ELSE <<SubSeq(s, 1, n)>> \o Chunks_Exact(SubSeq(s, n + 1, Len(s)), n)

\* slice::chunks(n)
RECURSIVE Chunks(_, _)
Chunks(s, n) ==
    IF s = <<>> THEN <<>>
    ELSE IF Len(s) <= n THEN <<s>>
    ELSE <<SubSeq(s, 1, n)>> \o Chunks(SubSeq(s, n + 1, Len(s)), n)

\* the base64 body lines of one attachment
AttachmentBodyLines(data) == Chunks(B64Encode(data, FALSE, TRUE), LineWidth)

\* faulty variant: the attachment part is not opened with the boundary line
AttachmentLines_NoOpener(attachment, mixed_boundary) ==
    <<S_CT \o attachment.mime_type \o S_Name \o encode_mime_header(attachment.filename) \o S_Quote,
      S_CTEBase64,
      S_Disposition \o encode_mime_header(attachment.filename) \o S_Quote,
      <<>>>>
    \o AttachmentBodyLines(attachment.data)
    \o << <<>> >>

AttachmentLines(attachment, mixed_boundary) ==
    <<S_Dashes \o mixed_boundary,
      S_CT \o attachment.mime_type \o S_Name \o encode_mime_header(attachment.filename) \o S_Quote,
      S_CTEBase64,
      S_Disposition \o encode_mime_header(attachment.filename) \o S_Quote,
      <<>>>>
    \o AttachmentBodyLines(attachment.data)
    \o << <<>> >>

RECURSIVE AllAttachmentLines(_, _)
AllAttachmentLines(atts, mixed_boundary) ==
    IF atts = <<>> THEN <<>>
    ELSE AttachmentLines(Head(atts), mixed_boundary)
            \o AllAttachmentLines(Tail(atts), mixed_boundary)

\* faulty variant: the clock reading is also written as a last line of its own
MixedLines_Stamped(p, now) ==
    LET mixed_boundary == MixedBoundary(now[1])
    IN  <<S_CTMixed \o mixed_boundary \o S_Quote, <<>>, S_Dashes \o mixed_boundary>>
        \o (IF UseHtml(p) THEN AlternativeLines(p, AltBoundary(now[2]))
            ELSE IF EffectiveMimeType(p) = "TextHtml" THEN HtmlOnlyLines(p)
            ELSE PlainLines(p))
        \o << <<>> >>
        \o AllAttachmentLines(Unwrap(p.attachments), mixed_boundary)
        \o <<S_Dashes \o mixed_boundary \o S_Dashes, generate_boundary(now[1])>>

\* the multipart/mixed branch; now[1] and now[2] are the clock readings
MixedLines(p, now) ==
    LET mixed_boundary == MixedBoundary(now[1])
    IN  <<S_CTMixed \o mixed_boundary \o S_Quote, <<>>, S_Dashes \o mixed_boundary>>
        \o (IF UseHtml(p) THEN AlternativeLines(p, AltBoundary(now[2]))
            ELSE IF EffectiveMimeType(p) = "TextHtml" THEN HtmlOnlyLines(p)
            ELSE PlainLines(p))
        \o << <<>> >>
        \o AllAttachmentLines(Unwrap(p.attachments), mixed_boundary)
        \o <<S_Dashes \o mixed_boundary \o S_Dashes>>

BodyLines(p, now) ==
    IF HasAttachments(p) THEN MixedLines(p, now)
    ELSE IF UseHtml(p) THEN AlternativeLines(p, NextBoundary(now[1]))
    ELSE IF EffectiveMimeType(p) = "TextHtml" THEN HtmlOnlyLines(p)
    ELSE PlainLines(p)

\* how many times the call reads the clock
ClockReads(p) ==
    IF IsSome(FirstInvalid(p.to)) THEN 0
    ELSE IF HasAttachments(p) THEN (IF UseHtml(p) THEN 2 ELSE 1)
    ELSE IF UseHtml(p) THEN 1
    ELSE 0

create_email_message(p, now) ==
    LET bad == FirstInvalid(p.to)
    IN  IF IsSome(bad) THEN Err([kind |-> "InvalidEmail", email |-> Unwrap(bad)])
        ELSE Ok(Join(HeaderLines(p) \o BodyLines(p, now), S_CRLF))

---------------------------------------------------------------------------
(* auth.rs: Authenticator::get_access_token; client.rs: send_email, create_draft *)

\* a token is refreshed when it expires in less than this many seconds
RefreshMargin == 300

\* faulty variant: a token expiring in exactly RefreshMargin seconds is refreshed too
NeedsRefresh_AtMargin(creds, now) ==
    IsSome(creds.expiry_date) /\ Unwrap(creds.expiry_date) - now <= RefreshMargin

\* `if let Some(expiry) = creds.expiry_date { if expiry - now < 300 {..} }`
NeedsRefresh(creds, now) ==
    IsSome(creds.expiry_date) /\ Unwrap(creds.expiry_date) - now < RefreshMargin

\* the credentials refresh_token builds from a successful token response
NewCredentials(response, refresh_token, now) ==
    [access_token |-> response.access_token,
     refresh_token |-> IF IsSome(response.refresh_token) THEN response.refresh_token
                       ELSE Some(refresh_token),
     expiry_date |-> IF IsSome(response.expires_in)
                     THEN Some(now + Unwrap(response.expires_in)) ELSE None]

\* the mail API endpoint an operation posts to
EndpointOf(op) == IF op = "send_email" THEN "messages/send" ELSE "drafts"

---------------------------------------------------------------------------
(* Inputs *)

MaxTo == 2            \* longest `to` list
MaxAttachments == 2   \* longest attachments list
MaxBytes == 120       \* longest attachment payload of the line-wrapping runs
MaxNodes == 3         \* largest part tree (number of nodes)

A_good == <<97,64,98,46,99,111>>                        \* "a@b.co"
A_noat == <<105,110,118,97,108,105,100>>                \* "invalid"
A_nodot == <<117,115,101,114,64,100,111,109,97,105,110>> \* "user@domain"
Addresses == {A_good, A_noat, A_nodot}

T_subject == <<83>>                          \* "S"
T_body == <<104,105>>                        \* "hi"
T_html == <<60,98,62,104,105,60,47,98,62>>   \* "<b>hi</b>"
T_msgid == <<60,109,49,64,120,62>>           \* "<m1@x>"
T_pdf == <<97,112,112,108,105,99,97,116,105,111,110,47,112,100,102>> \* "application/pdf"

MimeTypes == {"TextPlain", "TextHtml", "MultipartAlternative", "MultipartMixed"}

\* a payload of n bytes: byte i is (seed * i) mod 256
Payload(n, seed) == [i \in 1..n |-> (seed * i) % 256]

\* the k-th sample attachment: k payload bytes, file name "f<k>"
SampleAttachment(k) ==
    [filename |-> <<102, 48 + k>>, mime_type |-> T_pdf, data |-> Payload(k, 85 + k)]

ListsUpTo(S, n) == UNION {[1..k -> S] : k \in 0..n}

\* the first n sample attachments, for every n up to MaxAttachments
AttachmentLists == {[k \in 1..n |-> SampleAttachment(k)] : n \in 0..MaxAttachments}

ParamsSet ==
    [to : ListsUpTo(Addresses, MaxTo),
     subject : {T_subject},
     body : {T_body},
     html_body : {None, Some(T_html)},
     mime_type : {None} \cup {Some(m) : m \in MimeTypes},
     cc : {None, Some(<<>>), Some(<<A_noat>>)},
     bcc : {None, Some(<<A_nodot, A_good>>)},
     thread_id : {None},
     in_reply_to : {None, Some(T_msgid)},
     attachments : {None} \cup {Some(a) : a \in AttachmentLists}]

MaxEmailLen == 5      \* longest address handed to validate_email

\* every string of up to n bytes over the alphabet S
StringsUpTo(S, n) == UNION {[1..k -> S] : k \in 0..n}

\* the characters validate_email tells apart: a letter, '@', '.', ' '
EmailAlphabet == {97, CH_At, CH_Dot, CH_Space}

MaxTextLen == 4       \* longest message (bytes) handed to encode_raw_message
MaxDataLen == 4       \* longest text handed to decode_base64url

\* bytes of message text: 'h', '>', '?' and the two bytes of "é"
TextBytes == {104, 62, 63, 195, 169}

\* the &str values of up to MaxTextLen bytes: well-formed UTF-8 only
TextSet == {s \in StringsUpTo(TextBytes, MaxTextLen) : IsUtf8(s)}

\* characters of encoded data: 'a', '8', 'w', the symbols in which the two
\* alphabets differ, the padding character and one character of neither
DataAlphabet == {97, 56, 119, 45, 95, 43, 47, CH_Pad, 33}

MaxHeaderLen == 4     \* longest text (bytes) handed to encode_mime_header

\* bytes of header text: 'h', CR, LF and the two bytes of "é"
HeaderTextBytes == {104, CH_CR, CH_LF, 195, 169}

\* the &str values of up to MaxHeaderLen bytes: well-formed UTF-8 only
HeaderTextSet == {s \in StringsUpTo(HeaderTextBytes, MaxHeaderLen) : IsUtf8(s)}

\* field values carrying line breaks or non-ASCII text
A_crlf == <<97,64,98,46,99,111,13,10,88,58,121>>   \* "a@b.co\r\nX:y"
T_subject_crlf == <<83,13,10,88,58,121>>           \* "S\r\nX:y"
T_subject_utf8 == <<195,169>>                      \* "é"
T_body_lf == <<97,10,98>>                          \* "a\nb"
T_body_crlf == <<97,13,10,98>>                     \* "a\r\nb"
T_msgid_crlf == <<60,109,62,13,10,88,58,121>>      \* "<m>\r\nX:y"
F_crlf == <<102,13,10,88,58,121>>                  \* "f\r\nX:y"

\* params whose text fields are arbitrary strings, line breaks included
HostileParamsSet ==
    [to : {<<A_good>>, <<A_crlf>>, <<A_good, A_noat>>},
     subject : {T_subject, T_subject_crlf, T_subject_utf8},
     body : {T_body, T_body_lf, T_body_crlf},
     html_body : {None, Some(T_html)},
     mime_type : {None, Some("TextHtml"), Some("MultipartAlternative")},
     cc : {None, Some(<<>>), Some(<<A_crlf>>)},
     bcc : {None, Some(<<A_nodot, A_good>>)},
     thread_id : {None},
     in_reply_to : {None, Some(T_msgid), Some(T_msgid_crlf)},
     attachments : {None, Some(<<[filename |-> F_crlf, mime_type |-> T_pdf,
                                  data |-> Payload(1, 1)]>>)}]

\* two successive readings of the wall clock (nanoseconds): equal, later, earlier
ClockSet == {<<26, 26>>, <<26, 27>>, <<27, 26>>}

\* MessagePart nodes without their children
B64_hi == <<97,71,107>>          \* "aGk", base64url of "hi"
B64_yo == <<101,87,56>>          \* "eW8", base64url of "yo"
B64_b == <<80,71,73,45>>         \* "PGI-", base64url of "<b>"
B64_ff == <<95,119>>             \* "_w", base64url of the byte FF (not UTF-8)
B64_csv == <<98,105,119,120>>    \* "biwx", base64url of "n,1"
B64_bad == <<33,33>>             \* "!!", not base64
M_csv == <<116,101,120,116,47,99,115,118>>   \* "text/csv"
M_mixed == <<109,117,108,116,105,112,97,114,116,47,109,105,120,101,100>> \* "multipart/mixed"
F_txt == <<97,46,116,120,116>>   \* "a.txt"
ID_1 == <<97,116,116,49>>        \* "att1"
ID_2 == <<97,116,116,50>>        \* "att2"
ID_3 == <<97,116,116,51>>        \* "att3"
HD_Subject == <<83,117,98,106,101,99,116>>   \* "Subject"

PartBody(attachment_id, size, data) ==
    [attachment_id |-> attachment_id, size |-> size, data |-> data]

NodeKinds ==
    { [mime_type |-> Some(S_TextPlain), filename |-> None, headers |-> <<>>,
       body |-> Some(PartBody(None, 2, Some(B64_hi)))],
      [mime_type |-> Some(S_TextPlain), filename |-> None, headers |-> <<>>,
       body |-> Some(PartBody(None, 2, Some(B64_yo)))],
      [mime_type |-> Some(S_TextHtml), filename |-> Some(F_txt), headers |-> <<>>,
       body |-> Some(PartBody(Some(ID_2), 3, Some(B64_b)))],
      [mime_type |-> Some(S_TextPlain), filename |-> None, headers |-> <<>>,
       body |-> Some(PartBody(Some(ID_3), 0, Some(B64_bad)))],
      [mime_type |-> Some(S_TextHtml), filename |-> None, headers |-> <<>>,
       body |-> Some(PartBody(None, 1, Some(B64_ff)))],
      [mime_type |-> Some(M_csv), filename |-> None, headers |-> <<>>,
       body |-> Some(PartBody(None, 3, Some(B64_csv)))],
      [mime_type |-> Some(M_mixed), filename |-> None,
       headers |-> <<[name |-> HD_Subject, value |-> T_subject]>>,
       body |-> None],
      [mime_type |-> None, filename |-> None, headers |-> <<>>,
       body |-> Some(PartBody(Some(ID_1), 1234, Some(B64_hi)))] }

MakePart(kind, parts) ==
    [part_id |-> None, mime_type |-> kind.mime_type, filename |-> kind.filename,
     headers |-> kind.headers, body |-> kind.body, parts |-> parts]

\* the part trees of exactly n nodes, and the lists of trees of m nodes in all
RECURSIVE TreesOfSize(_)
RECURSIVE Forests(_)
Forests(m) ==
    IF m = 0 THEN {<<>>}
    ELSE UNION { {<<t>> \o f : t \in TreesOfSize(j), f \in Forests(m - j)} : j \in 1..m }

TreesOfSize(n) == {MakePart(k, f) : k \in NodeKinds, f \in Forests(n - 1)}

TreesUpTo(n) == UNION {TreesOfSize(k) : k \in 1..n}

MaxHeaders == 3       \* longest header list of the part handed to find_header

HD_SUBJECT == <<83,85,66,74,69,67,84>>   \* "SUBJECT"
HD_Subjec == <<83,117,98,106,101,99>>    \* "Subjec"
HD_From == <<70,114,111,109>>            \* "From"
HD_Date == <<68,97,116,101>>             \* "Date"

\* headers a part may carry itself; the value tells them apart
OwnHeaders ==
    { [name |-> HD_Subject, value |-> <<49>>],
      [name |-> HD_SUBJECT, value |-> <<50>>],
      [name |-> HD_Subjec, value |-> <<51>>],
      [name |-> HD_From, value |-> <<52>>] }

\* header lists of a child part
ChildHeaders ==
    { <<[name |-> H_subject, value |-> <<53>>]>>,
      <<[name |-> HD_Date, value |-> <<54>>], [name |-> HD_From, value |-> <<55>>]>> }

\* a part with the given headers and the given children, and nothing else
HeaderPart(headers, parts) ==
    MakePart([mime_type |-> None, filename |-> None, headers |-> headers, body |-> None],
             parts)

\* parts with up to MaxHeaders headers of their own and at most one child
HeaderPartSet ==
    {HeaderPart(hs, kids) :
        hs \in ListsUpTo(OwnHeaders, MaxHeaders),
        kids \in {<<>>} \cup {<<HeaderPart(c, <<>>)>> : c \in ChildHeaders}}

\* the names asked for
HeaderNames == {H_subject, HD_SUBJECT, H_from, H_date}

\* what the Authenticator may hold: nothing, a token without expiry date, one
\* expiring in exactly RefreshMargin seconds, one expiring sooner with and
\* without a refresh token, and one already expired (unix_now is 1000)
CredentialStates ==
    {None}
    \cup {Some([access_token |-> "at0", refresh_token |-> r, expiry_date |-> e]) :
             r \in {Some("rt0")}, e \in {None, Some(1300), Some(1299), Some(900)}}
    \cup {Some([access_token |-> "at0", refresh_token |-> None, expiry_date |-> Some(1299)])}

\* what the token endpoint may answer to a refresh request
TokenAnswers ==
    {[kind |-> "unreachable"], [kind |-> "refused"]}
    \cup {[kind |-> "success", access_token |-> "at1", refresh_token |-> r, expires_in |-> e] :
             r \in {None, Some("rt1")}, e \in {None, Some(3600)}}

\* what the mail API may answer to a send or draft request
ApiAnswers == {"success", "failure", "unreachable"}

\* the `to` lists of the calls: valid, invalid, and invalid after a valid one
SendToLists == {<<A_good>>, <<A_noat>>, <<A_good, A_nodot>>, <<A_nodot, A_noat>>}

T_bogus == <<120>>   \* "x", no MIME type the tool knows

\* the mimeType argument of the tool: absent, the types named in the schema,
\* and values the tool does not recognise
ToolMimeArgs ==
    {None, Some(S_TextPlain), Some(S_TextHtml), Some(S_MultipartAlternative),
     Some(M_mixed), Some(T_bogus)}

\* arguments of the send_email / draft_email tool
ToolArgsSet ==
    [to : {<<A_good>>, <<A_noat>>},
     subject : {T_subject},
     body : {T_body},
     html_body : {None, Some(T_html)},
     mime_type : ToolMimeArgs,
     cc : {None},
     bcc : {None},
     thread_id : {None},
     in_reply_to : {None},
     attachments : {None, Some(<<>>), Some(<<1>>), Some(<<1, 0>>)}]

T_snippet == <<112,114,101>>     \* "pre"
T_id == <<109,49>>               \* "m1"

MakeMessage(snippet, payload) ==
    [id |-> T_id, thread_id |-> None, snippet |-> snippet, payload |-> payload]

IdleParams == CHOOSE p \in ParamsSet : p.to = <<>> /\ p.mime_type = None
IdleMessage == MakeMessage(None, None)

\* six successive readings of the wall clock: all equal, rising, falling
ClockRuns == {<<26, 26, 26, 26, 26, 26>>, <<26, 27, 28, 29, 30, 31>>,
              <<31, 30, 29, 28, 27, 26>>}

\* params of every body branch, with a valid and with an invalid recipient
TwiceParamsSet ==
    {[IdleParams EXCEPT !.to = to, !.html_body = h, !.mime_type = m, !.attachments = a] :
        to \in {<<A_good>>, <<A_noat>>},
        h \in {None, Some(T_html)},
        m \in {None, Some("MultipartAlternative")},
        a \in {None, Some(<<SampleAttachment(1)>>)}}

\* a call of one of the codec's functions with its arguments
CodecCalls ==
    {[fn |-> "validate_email", email |-> e] : e \in {A_good, A_noat}}
    \cup {[fn |-> "encode_mime_header", text |-> t] : t \in {T_subject, T_subject_utf8}}
    \cup {[fn |-> "decode_base64url", data |-> d] : d \in {B64_hi, B64_b, B64_bad}}
    \cup {[fn |-> "find_header", part |-> p, name |-> H_subject] : p \in TreesOfSize(1)}
    \cup {[fn |-> "extract_email_content", part |-> p] : p \in TreesUpTo(2)}
    \cup {[fn |-> "extract_attachments", part |-> p] : p \in TreesUpTo(2)}
    \cup {[fn |-> "create_email_message", params |-> p] : p \in TwiceParamsSet}

---------------------------------------------------------------------------
(* tools.rs: ToolHandler::handle_send_email, from its arguments to EmailParams *)

\* the mimeType argument as the hint handed to create_email_message
ToolMimeType(mime_type) ==
    IF mime_type = Some(S_TextHtml) THEN Some("TextHtml")
    ELSE IF mime_type = Some(S_MultipartAlternative) THEN Some("MultipartAlternative")
    ELSE None

\* load_attachment: path 0 stands for a file that is missing, path k > 0 for
\* the file holding the k-th sample attachment
LoadAttachment(path) ==
    IF path = 0 THEN Err([kind |-> "FileNotFound"]) ELSE Ok(SampleAttachment(path))

\* the attachments argument, loaded; an absent or empty list of paths gives None
ToolAttachments(paths) ==
    IF paths = None \/ paths = Some(<<>>) THEN Ok(None)
    ELSE LET loaded == [k \in 1..Len(Unwrap(paths)) |-> LoadAttachment(Unwrap(paths)[k])]
             failed == {k \in 1..Len(loaded) : ~loaded[k].ok}
         IN  IF failed # {} THEN Err([kind |-> "Failed to load attachment"])
             ELSE Ok(Some([k \in 1..Len(loaded) |-> loaded[k].val]))

\* the EmailParams handle_send_email builds from its arguments
ToolParams(args) ==
    [to |-> args.to, subject |-> args.subject, body |-> args.body,
     html_body |-> args.html_body, mime_type |-> ToolMimeType(args.mime_type),
     cc |-> args.cc, bcc |-> args.bcc, thread_id |-> args.thread_id,
     in_reply_to |-> args.in_reply_to,
     attachments |-> ToolAttachments(args.attachments).val]

---------------------------------------------------------------------------
(* Operations *)

\* a caller composes params into a message
CreateEmailMessage ==
    /\ composed = None
    /\ composed' = Some(create_email_message(params, clock))
    /\ clock' = SubSeq(clock, ClockReads(params) + 1, Len(clock))
    /\ UNCHANGED <<params, readVars, callVars, clientVars, serverVars>>

\* a caller extracts the body text of the payload
ExtractEmailContent ==
    /\ IsSome(message.payload)
    /\ content = None
    /\ content' = Some(extract_email_content(Unwrap(message.payload)))
    /\ UNCHANGED <<composeVars, message, fetch_ok, attachments, read_result, callVars, clientVars,
                   serverVars>>

\* a caller lists the attachments of the payload
ExtractAttachments ==
    /\ IsSome(message.payload)
    /\ attachments = None
    /\ attachments' = Some(extract_attachments(Unwrap(message.payload)))
    /\ UNCHANGED <<composeVars, message, fetch_ok, content, read_result, callVars, clientVars,
                   serverVars>>

\* GmailClient::read_message; fetch_ok is the outcome of get_message
ReadMessage ==
    /\ read_result = None
    /\ read_result' = Some(read_message(message, fetch_ok))
    /\ UNCHANGED <<composeVars, message, fetch_ok, content, attachments, callVars, clientVars,
                   serverVars>>

\* a caller validates an address
ValidateEmail ==
    /\ arg.fn = "validate_email"
    /\ ret = None
    /\ ret' = Some(validate_email(arg.email))
    /\ UNCHANGED <<arg, composeVars, readVars, clientVars, serverVars>>

\* a caller encodes a message for transport
EncodeRawMessage ==
    /\ arg.fn = "encode_raw_message"
    /\ ret = None
    /\ ret' = Some(encode_raw_message(arg.message))
    /\ UNCHANGED <<arg, composeVars, readVars, clientVars, serverVars>>

\* the caller hands the encoded message to the decoder
DecodeEncoded ==
    /\ arg.fn = "encode_raw_message"
    /\ IsSome(ret)
    /\ arg' = [fn |-> "decode_base64url", data |-> Unwrap(ret), origin |-> Some(arg.message)]
    /\ ret' = None
    /\ UNCHANGED <<composeVars, readVars, clientVars, serverVars>>

\* a caller decodes data; arg.origin is the message the data was encoded from, if any
DecodeBase64Url ==
    /\ arg.fn = "decode_base64url"
    /\ ret = None
    /\ ret' = Some(decode_base64url(arg.data))
    /\ UNCHANGED <<arg, composeVars, readVars, clientVars, serverVars>>

\* a caller encodes the text of a header
EncodeMimeHeader ==
    /\ arg.fn = "encode_mime_header"
    /\ ret = None
    /\ ret' = Some(encode_mime_header(arg.text))
    /\ UNCHANGED <<arg, composeVars, readVars, clientVars, serverVars>>

\* a caller looks a header up in a part
FindHeader ==
    /\ arg.fn = "find_header"
    /\ ret = None
    /\ ret' = Some(find_header(arg.part, arg.name))
    /\ UNCHANGED <<arg, composeVars, readVars, clientVars, serverVars>>

\* send_email / create_draft, first await: get_access_token takes a read guard
\* on the credentials and answers from them, or turns to refresh_token with
\* the guard still held (`let _ = creds` releases nothing)
GetAccessToken ==
    /\ call.pc = "get_access_token"
    /\ IF credentials = None THEN
           /\ outcome' = Some(Err([kind |-> "CredentialsNotFound"]))
           /\ call' = [call EXCEPT !.pc = "done"]
           /\ UNCHANGED lock_readers
       ELSE IF NeedsRefresh(Unwrap(credentials), unix_now) THEN
           /\ lock_readers' = lock_readers + 1
           /\ call' = [call EXCEPT !.pc = "refresh_token"]
           /\ UNCHANGED outcome
       ELSE
           /\ call' = [call EXCEPT !.pc = "create_email_message",
                                   !.token = Some(Unwrap(credentials).access_token)]
           /\ UNCHANGED <<lock_readers, outcome>>
    /\ UNCHANGED <<composeVars, readVars, callVars, credentials, cred_file, unix_now,
                   api_requests, serverVars>>

\* refresh_token up to its request: a second read guard, taken and dropped,
\* gives the refresh token; without one the call fails and get_access_token
\* returns, dropping its guard
RefreshToken ==
    /\ call.pc = "refresh_token"
    /\ IF Unwrap(credentials).refresh_token = None THEN
           /\ outcome' = Some(Err([kind |-> "TokenRefreshFailed"]))
           /\ call' = [call EXCEPT !.pc = "done"]
           /\ lock_readers' = lock_readers - 1
       ELSE
           /\ call' = [call EXCEPT !.pc = "token_endpoint",
                                   !.refresh_token = Unwrap(credentials).refresh_token]
           /\ UNCHANGED <<lock_readers, outcome>>
    /\ UNCHANGED <<composeVars, readVars, callVars, credentials, cred_file, unix_now,
                   api_requests, serverVars>>

\* the token endpoint answers; on success the new credentials are saved to
\* the file and credentials.write() is awaited, which is granted only when no
\* read guard is held; until then the call stays parked at the write
TokenEndpointAnswers ==
    /\ call.pc = "token_endpoint"
    /\ \E answer \in TokenAnswers, disk_ok \in BOOLEAN :
          IF answer.kind # "success" \/ ~disk_ok THEN
              /\ outcome' = Some(Err([kind |-> IF answer.kind = "unreachable" THEN "Http"
                                               ELSE IF answer.kind = "refused"
                                               THEN "TokenRefreshFailed"
                                               ELSE "Io"]))
              /\ call' = [call EXCEPT !.pc = "done"]
              /\ lock_readers' = lock_readers - 1
              /\ UNCHANGED <<credentials, cred_file>>
          ELSE
              LET new == NewCredentials(answer, Unwrap(call.refresh_token), unix_now)
              IN  /\ cred_file' = Some(new)
                  /\ IF lock_readers = 0 THEN
                         /\ credentials' = Some(new)
                         /\ call' = [call EXCEPT !.pc = "create_email_message",
                                                 !.token = Some(new.access_token)]
                     ELSE
                         /\ call' = [call EXCEPT !.pc = "credentials_write"]
                         /\ UNCHANGED credentials
                  /\ UNCHANGED <<lock_readers, outcome>>
    /\ UNCHANGED <<composeVars, readVars, callVars, unix_now, api_requests, serverVars>>

\* with the token in hand the message is composed; an invalid address ends the call
ComposeForCall ==
    /\ call.pc = "create_email_message"
    /\ LET r == create_email_message(params, clock)
       IN  /\ composed' = Some(r)
           /\ clock' = SubSeq(clock, ClockReads(params) + 1, Len(clock))
           /\ IF r.ok THEN
                  /\ call' = [call EXCEPT !.pc = "post", !.raw = encode_raw_message(r.val)]
                  /\ UNCHANGED outcome
              ELSE
                  /\ call' = [call EXCEPT !.pc = "done"]
                  /\ outcome' = Some(r)
    /\ UNCHANGED <<params, readVars, callVars, credentials, cred_file, lock_readers,
                   unix_now, api_requests, serverVars>>

\* the request goes to the mail API, which answers
PostToApi ==
    /\ call.pc = "post"
    /\ api_requests' = Append(api_requests,
                              [endpoint |-> EndpointOf(call.op),
                               bearer |-> Unwrap(call.token), raw |-> call.raw])
    /\ \E answer \in ApiAnswers :
          outcome' = Some(IF answer = "success" THEN Ok(call.op)
                          ELSE IF answer = "failure" THEN Err([kind |-> "RequestFailed"])
                          ELSE Err([kind |-> "Http"]))
    /\ call' = [call EXCEPT !.pc = "done"]
    /\ UNCHANGED <<composeVars, readVars, callVars, credentials, cred_file, lock_readers,
                   unix_now, serverVars>>

\* handle_send_email up to the EmailParams it hands to the client; a failing
\* attachment ends the call with an error result
HandleSendEmailArgs ==
    /\ arg.fn = "handle_send_email"
    /\ ret = None
    /\ params = IdleParams
    /\ LET loaded == ToolAttachments(arg.args.attachments)
       IN  IF loaded.ok THEN params' = ToolParams(arg.args) /\ UNCHANGED ret
           ELSE ret' = Some(loaded) /\ UNCHANGED params
    /\ UNCHANGED <<arg, clock, composed, readVars, clientVars, serverVars>>

\* the client composes the params the tool built
ComposeToolParams ==
    /\ arg.fn = "handle_send_email"
    /\ params # IdleParams
    /\ CreateEmailMessage

\* what a call returns; only create_email_message reads the clock
Invoke(a, now) ==
    CASE a.fn = "validate_email" -> validate_email(a.email)
      [] a.fn = "encode_mime_header" -> encode_mime_header(a.text)
      [] a.fn = "decode_base64url" -> decode_base64url(a.data)
      [] a.fn = "find_header" -> find_header(a.part, a.name)
      [] a.fn = "extract_email_content" -> extract_email_content(a.part)
      [] a.fn = "extract_attachments" -> extract_attachments(a.part)
      [] a.fn = "create_email_message" -> create_email_message(a.params, now)

\* a caller makes the call arg describes, up to two times; ret lists the results
CallCodec ==
    /\ arg.fn \in {c.fn : c \in CodecCalls}
    /\ Len(ret) < 2
    /\ ret' = Append(ret, Invoke(arg, clock))
    /\ clock' = IF arg.fn = "create_email_message"
                THEN SubSeq(clock, ClockReads(arg.params) + 1, Len(clock))
                ELSE clock
    /\ UNCHANGED <<arg, params, composed, readVars, clientVars, serverVars>>

---------------------------------------------------------------------------
(* Batch operations of the client (src/gmail/client.rs) *)

\* the batch size handle_batch_modify / handle_batch_delete pass on when
\* the tool arguments name none
DefaultBatchSize == 50

MaxIds == 3           \* longest list of message ids

\* lists of message ids, repeated ids included
RECURSIVE IdLists(_)
IdLists(n) ==
    IF n = 0 THEN {<<>>}
    ELSE IdLists(n - 1)
         \cup {Append(l, m) : l \in {k \in IdLists(n - 1) : Len(k) = n - 1},
                              m \in {"m1", "m2"}}

\* the batchSize tool argument: absent, zero, below, at and above the list length
BatchSizeArgs == {None, Some(0), Some(1), Some(2), Some(MaxIds + 1)}

\* how one modify_message / delete_message call ends
MessageAnswers == {"success", "failure", "unreachable"}

\* the error text the failures list keeps for a failed message
FailureText(answer) == IF answer = "failure" THEN "RequestFailed" ELSE "Http"

\* `for chunk in message_ids.chunks(batch_size)`: building the chunks
\* iterator panics when the size is zero
BatchChunks ==
    /\ call.pc = "chunks"
    /\ IF call.batch_size = 0 THEN call' = [call EXCEPT !.pc = "panicked"]
       ELSE call' = [call EXCEPT !.pc = "message",
                                 !.chunks = Chunks(call.message_ids, call.batch_size)]
    /\ UNCHANGED <<composeVars, readVars, callVars, credentials, cred_file, lock_readers,
                   unix_now, api_requests, outcome, serverVars>>

\* the inner loop's body for the next message of the current chunk: the
\* message is modified or deleted and its id goes to successes or failures
BatchMessage ==
    /\ call.pc = "message"
    /\ call.chunks # <<>>
    /\ LET chunk == Head(call.chunks)
           message_id == Head(chunk)
           rest == IF Len(chunk) = 1 THEN Tail(call.chunks)
                   ELSE <<Tail(chunk)>> \o Tail(call.chunks)
       IN  /\ api_requests' = Append(api_requests,
                                     [endpoint |-> IF call.op = "batch_modify_messages"
                                                   THEN "messages/modify"
                                                   ELSE "messages/delete",
                                      message_id |-> message_id])
           /\ \E answer \in MessageAnswers :
                 call' = [call EXCEPT
                             !.chunks = rest,
                             !.answers = Append(@, answer),
                             !.successes = IF answer = "success"
                                           THEN Append(@, message_id) ELSE @,
                             !.failures = IF answer = "success" THEN @
                                          ELSE Append(@, <<message_id, FailureText(answer)>>)]
    /\ UNCHANGED <<composeVars, readVars, callVars, credentials, cred_file, lock_readers,
                   unix_now, outcome, serverVars>>

\* after the last chunk the counts and the failures are returned
BatchReturn ==
    /\ call.pc = "message"
    /\ call.chunks = <<>>
    /\ outcome' = Some(Ok([success_count |-> Len(call.successes),
                           failure_count |-> Len(call.failures),
                           failures |-> call.failures]))
    /\ call' = [call EXCEPT !.pc = "done"]
    /\ UNCHANGED <<composeVars, readVars, callVars, credentials, cred_file, lock_readers,
                   unix_now, api_requests, serverVars>>

---------------------------------------------------------------------------
(* Deleting a label (src/gmail/labels.rs) *)

\* the ids of the labels asked to be deleted
LabelIds == {"INBOX", "Label_1", "Label_2"}

\* the Label a successful GET gives: its type may be absent, and is compared
\* as it stands
LabelTypes == {None, Some("system"), Some("user"), Some("System")}
FetchedLabels == [name : {"Inbox", "Work"}, label_type : LabelTypes]

\* how the GET of LabelManager::get ends: no answer, a body that is no Label,
\* status 404, another failure status, or a Label
LabelGetAnswers ==
    {[kind |-> k, label |-> None] : k \in {"unreachable", "bad_json", "404", "failure"}}
    \cup {[kind |-> "success", label |-> Some(l)] : l \in FetchedLabels}

\* how the DELETE ends
LabelDeleteAnswers == {"unreachable", "404", "failure", "success"}

\* faulty variant: the type is compared with the upper-case spelling
IsSystemLabel_Never(label) == label.label_type = Some("SYSTEM")

\* label.label_type.as_deref() == Some("system")
IsSystemLabel(label) == label.label_type = Some("system")

\* LabelManager::get as called first by delete: the label is fetched; when
\* that fails delete returns the error
LabelGet ==
    /\ call.pc = "get"
    /\ api_requests' = Append(api_requests, [method |-> "GET", label_id |-> call.label_id])
    /\ \E answer \in LabelGetAnswers :
          IF answer.kind = "success" THEN
              /\ call' = [call EXCEPT !.pc = "delete", !.label = answer.label]
              /\ UNCHANGED outcome
          ELSE
              /\ call' = [call EXCEPT !.pc = "done"]
              /\ outcome' = Some(Err([kind |-> IF answer.kind = "404" THEN "LabelNotFound"
                                               ELSE IF answer.kind = "failure"
                                               THEN "RequestFailed"
                                               ELSE "Http",
                                      label_id |-> call.label_id]))
    /\ UNCHANGED <<composeVars, readVars, callVars, credentials, cred_file, lock_readers,
                   unix_now, serverVars>>

\* the rest of LabelManager::delete: a system label is refused, any other
\* label is deleted with a DELETE request
LabelDelete ==
    /\ call.pc = "delete"
    /\ IF IsSystemLabel(Unwrap(call.label)) THEN
           /\ outcome' = Some(Err([kind |-> "CannotDeleteSystemLabel",
                                   label_id |-> call.label_id]))
           /\ UNCHANGED api_requests
       ELSE
           /\ api_requests' = Append(api_requests,
                                     [method |-> "DELETE", label_id |-> call.label_id])
           /\ \E answer \in LabelDeleteAnswers :
                 outcome' = Some(IF answer = "success" THEN Ok("deleted")
                                 ELSE Err([kind |-> IF answer = "404" THEN "LabelNotFound"
                                                    ELSE IF answer = "failure"
                                                    THEN "RequestFailed"
                                                    ELSE "Http",
                                           label_id |-> call.label_id]))
    /\ call' = [call EXCEPT !.pc = "done"]
    /\ UNCHANGED <<composeVars, readVars, callVars, credentials, cred_file, lock_readers,
                   unix_now, serverVars>>

---------------------------------------------------------------------------
(* The stdio server (src/mcp/server.rs) and its JSON-RPC types             *)
(* (src/mcp/types.rs).  An input line is modelled by what serde_json makes *)
(* of it: text that is no JSON, a JSON value that is no object, or an      *)
(* object with the members a JsonRpcRequest is read from.                  *)

\* "Error: "  (types.rs:352)
S_ErrorPrefix == <<69,114,114,111,114,58,32>>
\* "Missing tool parameters"  (server.rs:160)
S_MissingToolParameters == <<77,105,115,115,105,110,103,32,116,111,111,108,32,112,97,114,97,109,101,116,101,114,115>>
\* "Invalid tool parameters: "  (server.rs:152)
S_InvalidToolParameters == <<73,110,118,97,108,105,100,32,116,111,111,108,32,112,97,114,97,109,101,116,101,114,115,58,32>>
\* "Unknown tool: "  (tools.rs:74)
S_UnknownTool == <<85,110,107,110,111,119,110,32,116,111,111,108,58,32>>
\* "send_email"  (tools.rs:55)
S_send_email == <<115,101,110,100,95,101,109,97,105,108>>

\* mcp::types::methods
INITIALIZE == "initialize"
INITIALIZED == "notifications/initialized"
LIST_TOOLS == "tools/list"
CALL_TOOL == "tools/call"
PING == "ping"

JSONRPC_VERSION == "2.0"

\* the `id` member of an input object: absent, null, or a RequestId
NoId == [t |-> "absent", n |-> 0, s |-> ""]
NullId == [t |-> "null", n |-> 0, s |-> ""]
RequestId_Number(n) == [t |-> "number", n |-> n, s |-> ""]
RequestId_String(s) == [t |-> "string", n |-> 0, s |-> s]

\* the `params` member of an input object: absent, null, a number, or an
\* object with or without a `name`
JsonParams(type, name) == [t |-> type, name |-> name]
NoParams == JsonParams("absent", None)

\* an input line that is no JSON text
TextLine(raw) ==
    [top |-> "text", raw |-> raw, jsonrpc |-> "absent", id |-> NoId, method |-> None,
     params |-> NoParams]
\* an input line holding a JSON value that is no object
ScalarLine == [TextLine(<<>>) EXCEPT !.top = "scalar"]
\* an input line holding a JSON object
ObjectLine(jsonrpc, id, method, json_params) ==
    [top |-> "object", raw |-> <<>>, jsonrpc |-> jsonrpc, id |-> id, method |-> method,
     params |-> json_params]

\* line.trim().is_empty()
IsBlank(line) ==
    /\ line.top = "text"
    /\ \A i \in 1..Len(line.raw) : line.raw[i] \in {9, 10, 11, 12, 13, 32}

\* serde_json::from_str::<JsonRpcRequest>: jsonrpc, id and method are
\* required, id is a string or an integer, params: null reads as None
JsonRpcRequest_from_str(line) ==
    IF \/ line.top # "object"
       \/ line.jsonrpc # "string"
       \/ line.id.t \notin {"number", "string"}
       \/ line.method = None
    THEN Err([kind |-> "Json"])
    ELSE Ok([id |-> line.id, method |-> Unwrap(line.method),
             params |-> IF line.params.t \in {"absent", "null"} THEN None
                        ELSE Some(line.params)])

\* serde_json::from_value::<CallToolParams>: an object with a name
CallToolParams_from_value(p) ==
    IF p.t = "object" /\ IsSome(p.name) THEN Ok([name |-> Unwrap(p.name)])
    ELSE Err([kind |-> "Json"])

\* JsonRpcError::parse_error
JsonRpcError_parse_error == [code |-> -32700, message |-> <<"serde_json::Error">>]

\* faulty variant: the code of an invalid request
JsonRpcError_method_not_found_InvalidRequest(method) ==
    [code |-> -32600, message |-> <<"Method not found: ", method>>]

\* JsonRpcError::method_not_found
JsonRpcError_method_not_found(method) ==
    [code |-> -32601, message |-> <<"Method not found: ", method>>]

\* JsonRpcResponse::success
JsonRpcResponse_success(id, result) ==
    [jsonrpc |-> JSONRPC_VERSION, id |-> id, result |-> Some(result), error |-> None]

\* faulty variant: an error response that also carries a result
JsonRpcResponse_error_WithResult(id, error) ==
    [jsonrpc |-> JSONRPC_VERSION, id |-> id, result |-> Some([kind |-> "Null"]),
     error |-> Some(error)]

\* JsonRpcResponse::error
JsonRpcResponse_error(id, error) ==
    [jsonrpc |-> JSONRPC_VERSION, id |-> id, result |-> None, error |-> Some(error)]

\* CallToolResult::text
CallToolResult_text(text) ==
    [kind |-> "CallToolResult", content |-> <<[type |-> "text", text |-> text]>>,
     is_error |-> FALSE]

\* faulty variant: the message is not prefixed
CallToolResult_error_NoPrefix(msg) ==
    [kind |-> "CallToolResult", content |-> <<[type |-> "text", text |-> msg]>>,
     is_error |-> TRUE]

\* CallToolResult::error
CallToolResult_error(msg) ==
    [kind |-> "CallToolResult",
     content |-> <<[type |-> "text", text |-> S_ErrorPrefix \o msg]>>,
     is_error |-> TRUE]

\* the tools call_tool knows, and a name it does not know
T_nope == <<110, 111, 112, 101>>
KnownTools == {S_send_email}

\* how a tool handler ends: with a text, with an error, or not at all, when
\* the client call it awaits never returns or panics
T_sent == <<115, 101, 110, 116>>
T_denied == <<100, 101, 110, 105, 101, 100>>
ToolOutcomes ==
    {[kind |-> "text", text |-> T_sent], [kind |-> "error", text |-> T_denied],
     [kind |-> "blocked", text |-> <<>>], [kind |-> "panic", text |-> <<>>]}

\* what handle_message does with a line before any tool runs: the response
\* it returns, whether it sets initialized, and the tool it goes on to call
handle_message(line) ==
    LET parsed == JsonRpcRequest_from_str(line)
        request == parsed.val
        Reply(response) == [response |-> Some(response), initialized |-> FALSE,
                            tool |-> None]
    IN  IF ~parsed.ok
        THEN Reply(JsonRpcResponse_error(RequestId_Number(0), JsonRpcError_parse_error))
        ELSE IF request.method = INITIALIZE
        THEN Reply(JsonRpcResponse_success(request.id, [kind |-> "InitializeResult"]))
        ELSE IF request.method = INITIALIZED
        THEN [response |-> None, initialized |-> TRUE, tool |-> None]
        ELSE IF request.method = PING
        THEN Reply(JsonRpcResponse_success(request.id, [kind |-> "EmptyObject"]))
        ELSE IF request.method = LIST_TOOLS
        THEN Reply(JsonRpcResponse_success(request.id, [kind |-> "ListToolsResult"]))
        ELSE IF request.method = CALL_TOOL
        THEN IF request.params = None
             THEN Reply(JsonRpcResponse_success(
                            request.id, CallToolResult_error(S_MissingToolParameters)))
             ELSE LET tool_params == CallToolParams_from_value(Unwrap(request.params))
                  IN  IF ~tool_params.ok
                      THEN Reply(JsonRpcResponse_success(
                                     request.id,
                                     CallToolResult_error(S_InvalidToolParameters)))
                      ELSE [response |-> None, initialized |-> FALSE,
                            tool |-> Some(tool_params.val.name)]
        ELSE Reply(JsonRpcResponse_error(request.id,
                                         JsonRpcError_method_not_found(request.method)))

\* the input lines of a session
InputLines ==
    {TextLine(<<>>), TextLine(<<32, 9>>), TextLine(<<123>>), ScalarLine,
     ObjectLine("string", RequestId_Number(1), Some(INITIALIZE), NoParams),
     ObjectLine("string", RequestId_String("a"), Some(PING), NoParams),
     ObjectLine("string", RequestId_Number(2), Some(LIST_TOOLS), JsonParams("null", None)),
     ObjectLine("string", RequestId_Number(3), Some(CALL_TOOL),
                JsonParams("object", Some(S_send_email))),
     ObjectLine("string", RequestId_Number(3), Some(CALL_TOOL),
                JsonParams("object", Some(T_nope))),
     ObjectLine("string", RequestId_Number(4), Some(CALL_TOOL), NoParams),
     ObjectLine("string", RequestId_String("b"), Some(CALL_TOOL),
                JsonParams("object", None)),
     ObjectLine("string", RequestId_Number(0), Some("resources/list"), NoParams),
     ObjectLine("string", NoId, Some(INITIALIZED), NoParams),
     ObjectLine("string", RequestId_Number(5), Some(INITIALIZED), NoParams),
     ObjectLine("string", NullId, Some(PING), NoParams),
     ObjectLine("absent", RequestId_Number(6), Some(PING), NoParams),
     ObjectLine("string", RequestId_Number(7), None, NoParams)}

MaxLines == 2         \* longest session, in input lines

\* the sessions: every sequence of at most MaxLines input lines
RECURSIVE Sessions(_)
Sessions(n) ==
    IF n = 0 THEN {<<>>}
    ELSE Sessions(n - 1)
         \cup {Append(s, l) : s \in {k \in Sessions(n - 1) : Len(k) = n - 1},
                              l \in InputLines}

\* writeln!(stdout, ...) and flush: the response is written, or the write
\* fails and run_stdio returns the error
WriteResponse(response) ==
    \E write_ok \in BOOLEAN :
       IF write_ok THEN
           /\ stdout' = Append(stdout, response)
           /\ handled' = [handled EXCEPT ![Len(handled)].responses = Append(@, response)]
           /\ server_pc' = "read"
       ELSE
           /\ server_pc' = "stopped"
           /\ UNCHANGED <<stdout, handled>>

\* the head of run_stdio's loop: the next line is read; the loop ends at
\* the end of the input or on a read error, and skips a blank line
ReadLine ==
    /\ server_pc = "read"
    /\ IF stdin = <<>> THEN server_pc' = "stopped" /\ UNCHANGED <<stdin, handled>>
       ELSE \E read_ok \in BOOLEAN :
               IF ~read_ok THEN server_pc' = "stopped" /\ UNCHANGED <<stdin, handled>>
               ELSE /\ stdin' = Tail(stdin)
                    /\ handled' = Append(handled,
                                         [line |-> Head(stdin), responses |-> <<>>])
                    /\ server_pc' = IF IsBlank(Head(stdin)) THEN "read"
                                    ELSE "handle_message"
    /\ UNCHANGED <<composeVars, readVars, callVars, clientVars, stdout, initialized>>

\* handle_message up to a tool call, and the write of its response
HandleMessage ==
    /\ server_pc = "handle_message"
    /\ LET h == handle_message(handled[Len(handled)].line)
       IN  /\ initialized' = (initialized \/ h.initialized)
           /\ IF IsSome(h.response) THEN WriteResponse(Unwrap(h.response))
              ELSE /\ server_pc' = IF IsSome(h.tool) THEN "call_tool" ELSE "read"
                   /\ UNCHANGED <<stdout, handled>>
    /\ UNCHANGED <<composeVars, readVars, callVars, clientVars, stdin>>

\* ToolHandler::call_tool and the response built from what it returns: an
\* unknown name is an error result; a known tool's handler returns its
\* result, or never returns
CallTool ==
    /\ server_pc = "call_tool"
    /\ LET request == JsonRpcRequest_from_str(handled[Len(handled)].line).val
           name == CallToolParams_from_value(Unwrap(request.params)).val.name
           Reply(result) == WriteResponse(JsonRpcResponse_success(request.id, result))
       IN  IF name \notin KnownTools THEN Reply(CallToolResult_error(S_UnknownTool \o name))
           ELSE \E o \in ToolOutcomes :
                   IF o.kind = "text" THEN Reply(CallToolResult_text(o.text))
                   ELSE IF o.kind = "error" THEN Reply(CallToolResult_error(o.text))
                   ELSE /\ server_pc' = IF o.kind = "blocked" THEN "blocked" ELSE "panicked"
                        /\ UNCHANGED <<stdout, handled>>
    /\ UNCHANGED <<composeVars, readVars, callVars, clientVars, stdin, initialized>>

IdleServer ==
    /\ stdin = <<>> /\ stdout = <<>> /\ initialized = FALSE
    /\ server_pc = "idle" /\ handled = <<>>
IdleCompose == params = IdleParams /\ clock = <<>> /\ composed = None
IdleRead ==
    /\ message = IdleMessage /\ fetch_ok = TRUE
    /\ content = None /\ attachments = None /\ read_result = None
IdleCall == arg = [fn |-> "none"] /\ ret = None
IdleClient ==
    /\ credentials = None /\ cred_file = None /\ lock_readers = 0 /\ unix_now = 0
    /\ call = [pc |-> "idle"] /\ api_requests = <<>> /\ outcome = None

\* composing
InitCompose ==
    /\ IdleServer
    /\ params \in ParamsSet
    /\ clock \in ClockSet
    /\ composed = None
    /\ IdleRead
    /\ IdleCall
    /\ IdleClient

NextCompose == CreateEmailMessage
SpecCompose == InitCompose /\ [][NextCompose]_vars

\* composing one attachment of every length up to MaxBytes
InitWrap ==
    /\ IdleServer
    /\ \E n \in 0..MaxBytes, seed \in {1, 37, 255} :
          params = [IdleParams EXCEPT
                      !.to = <<A_good>>,
                      !.attachments = Some(<<[filename |-> F_txt, mime_type |-> T_pdf,
                                              data |-> Payload(n, seed)]>>)]
    /\ clock \in ClockSet
    /\ composed = None
    /\ IdleRead
    /\ IdleCall
    /\ IdleClient

SpecWrap == InitWrap /\ [][NextCompose]_vars

\* composing params whose text fields are arbitrary strings
InitHostile ==
    /\ IdleServer
    /\ params \in HostileParamsSet
    /\ clock \in ClockSet
    /\ composed = None
    /\ IdleRead
    /\ IdleCall
    /\ IdleClient

SpecHostile == InitHostile /\ [][NextCompose]_vars

\* extracting from a part tree
InitExtract ==
    /\ IdleServer
    /\ IdleCompose
    /\ \E t \in TreesUpTo(MaxNodes) : message = MakeMessage(None, Some(t))
    /\ fetch_ok = TRUE
    /\ content = None /\ attachments = None /\ read_result = None
    /\ IdleCall
    /\ IdleClient

NextExtract == ExtractEmailContent \/ ExtractAttachments
SpecExtract == InitExtract /\ [][NextExtract]_vars

\* reading a message
InitRead ==
    /\ IdleServer
    /\ IdleCompose
    /\ \E s \in {None, Some(<<>>), Some(T_snippet)},
          p \in {None} \cup {Some(t) : t \in TreesUpTo(MaxNodes)} :
          message = MakeMessage(s, p)
    /\ fetch_ok \in BOOLEAN
    /\ content = None /\ attachments = None /\ read_result = None
    /\ IdleCall
    /\ IdleClient

NextRead == ReadMessage
SpecRead == InitRead /\ [][NextRead]_vars

\* validating an address
InitValidate ==
    /\ IdleServer
    /\ IdleCompose
    /\ IdleRead
    /\ \E e \in StringsUpTo(EmailAlphabet, MaxEmailLen) :
          arg = [fn |-> "validate_email", email |-> e]
    /\ ret = None
    /\ IdleClient

NextValidate == ValidateEmail
SpecValidate == InitValidate /\ [][NextValidate]_vars

\* encoding a message for transport and decoding it again
InitCodec ==
    /\ IdleServer
    /\ IdleCompose
    /\ IdleRead
    /\ \E m \in TextSet : arg = [fn |-> "encode_raw_message", message |-> m]
    /\ ret = None
    /\ IdleClient

NextCodec == EncodeRawMessage \/ DecodeEncoded \/ DecodeBase64Url
SpecCodec == InitCodec /\ [][NextCodec]_vars

\* decoding arbitrary data
InitDecode ==
    /\ IdleServer
    /\ IdleCompose
    /\ IdleRead
    /\ \E d \in StringsUpTo(DataAlphabet, MaxDataLen) :
          arg = [fn |-> "decode_base64url", data |-> d, origin |-> None]
    /\ ret = None
    /\ IdleClient

NextDecode == DecodeBase64Url
SpecDecode == InitDecode /\ [][NextDecode]_vars

\* encoding the text of a header
InitHeaderText ==
    /\ IdleServer
    /\ IdleCompose
    /\ IdleRead
    /\ \E t \in HeaderTextSet : arg = [fn |-> "encode_mime_header", text |-> t]
    /\ ret = None
    /\ IdleClient

NextHeaderText == EncodeMimeHeader
SpecHeaderText == InitHeaderText /\ [][NextHeaderText]_vars

\* looking a header up
InitFindHeader ==
    /\ IdleServer
    /\ IdleCompose
    /\ IdleRead
    /\ \E p \in HeaderPartSet, n \in HeaderNames :
          arg = [fn |-> "find_header", part |-> p, name |-> n]
    /\ ret = None
    /\ IdleClient

NextFindHeader == FindHeader
SpecFindHeader == InitFindHeader /\ [][NextFindHeader]_vars

\* sending an email or creating a draft
InitSend ==
    /\ IdleServer
    /\ \E to \in SendToLists : params = [IdleParams EXCEPT !.to = to]
    /\ clock = <<>>
    /\ composed = None
    /\ IdleRead
    /\ IdleCall
    /\ credentials \in CredentialStates
    /\ cred_file = credentials
    /\ lock_readers = 0
    /\ unix_now = 1000
    /\ \E op \in {"send_email", "create_draft"} :
          call = [op |-> op, pc |-> "get_access_token", token |-> None,
                  refresh_token |-> None, raw |-> <<>>]
    /\ api_requests = <<>>
    /\ outcome = None

NextSend ==
    GetAccessToken \/ RefreshToken \/ TokenEndpointAnswers \/ ComposeForCall \/ PostToApi
SpecSend == InitSend /\ [][NextSend]_vars

\* the send_email / draft_email tool composing its arguments; arg.clock keeps
\* the clock readings the composition starts from
InitTool ==
    /\ IdleServer
    /\ params = IdleParams
    /\ clock \in ClockSet
    /\ composed = None
    /\ IdleRead
    /\ \E a \in ToolArgsSet : arg = [fn |-> "handle_send_email", args |-> a, clock |-> clock]
    /\ ret = None
    /\ IdleClient

NextTool == HandleSendEmailArgs \/ ComposeToolParams
SpecTool == InitTool /\ [][NextTool]_vars

\* two calls on the same input, and another composition in between, before
\* or after them
InitTwice ==
    /\ IdleServer
    /\ params \in {p \in TwiceParamsSet : p.mime_type # None /\ p.to = <<A_good>>}
    /\ clock \in ClockRuns
    /\ composed = None
    /\ IdleRead
    /\ arg \in CodecCalls
    /\ ret = <<>>
    /\ IdleClient

NextTwice == CallCodec \/ CreateEmailMessage
SpecTwice == InitTwice /\ [][NextTwice]_vars

\* a batch modification or deletion called from its tool handler
InitBatch ==
    /\ IdleServer
    /\ IdleCompose
    /\ IdleRead
    /\ IdleCall
    /\ credentials = None /\ cred_file = None /\ lock_readers = 0 /\ unix_now = 0
    /\ \E op \in {"batch_modify_messages", "batch_delete_messages"},
          ids \in IdLists(MaxIds), size \in BatchSizeArgs :
          call = [op |-> op, pc |-> "chunks", message_ids |-> ids,
                  batch_size |-> UnwrapOr(size, DefaultBatchSize), chunks |-> <<>>,
                  answers |-> <<>>, successes |-> <<>>, failures |-> <<>>]
    /\ api_requests = <<>>
    /\ outcome = None

NextBatch == BatchChunks \/ BatchMessage \/ BatchReturn
SpecBatch == InitBatch /\ [][NextBatch]_vars

\* LabelManager::delete called for one label id
InitLabel ==
    /\ IdleServer
    /\ IdleCompose
    /\ IdleRead
    /\ IdleCall
    /\ credentials = None /\ cred_file = None /\ lock_readers = 0 /\ unix_now = 0
    /\ \E id \in LabelIds :
          call = [op |-> "delete_label", pc |-> "get", label_id |-> id, label |-> None]
    /\ api_requests = <<>>
    /\ outcome = None

NextLabel == LabelGet \/ LabelDelete
SpecLabel == InitLabel /\ [][NextLabel]_vars

\* a session of the stdio server
InitServer ==
    /\ IdleCompose
    /\ IdleRead
    /\ IdleCall
    /\ IdleClient
    /\ stdin \in Sessions(MaxLines)
    /\ stdout = <<>>
    /\ initialized = FALSE
    /\ server_pc = "read"
    /\ handled = <<>>

NextServer == ReadLine \/ HandleMessage \/ CallTool
SpecServer == InitServer /\ [][NextServer]_vars

Init ==
    \/ InitCompose \/ InitHostile \/ InitExtract \/ InitRead
    \/ InitValidate \/ InitCodec \/ InitDecode \/ InitHeaderText \/ InitFindHeader
    \/ InitSend \/ InitTool \/ InitTwice \/ InitBatch \/ InitLabel \/ InitServer
Next ==
    \/ NextCompose \/ NextExtract \/ NextRead
    \/ NextValidate \/ NextCodec \/ NextHeaderText \/ NextFindHeader
    \/ NextSend \/ NextTool \/ NextTwice \/ NextBatch \/ NextLabel \/ NextServer
Spec == Init /\ [][Next]_vars

---------------------------------------------------------------------------
(* Reading a composed message back: the output split at CRLF *)

\* the lines of text from index `from` on: the pieces between its CRLF pairs
RECURSIVE SplitCRLFFrom(_, _)
SplitCRLFFrom(s, from) ==
    LET IsBreak(i) == s[i] = CH_CR /\ s[i + 1] = CH_LF
        rest == from..(Len(s) - 1)
    IN  IF \A i \in rest : ~IsBreak(i) THEN <<SubSeq(s, from, Len(s))>>
        ELSE LET i == CHOOSE k \in rest : IsBreak(k) /\ \A j \in from..(k - 1) : ~IsBreak(j)
             IN  <<SubSeq(s, from, i - 1)>> \o SplitCRLFFrom(s, i + 2)

SplitCRLF(s) == SplitCRLFFrom(s, 1)

\* the lines of the composed message (none when composing failed or has not run)
OutLines ==
    IF IsSome(composed) /\ Unwrap(composed).ok THEN SplitCRLF(Unwrap(composed).val)
    ELSE <<>>

\* indices of the lines of L equal to line, and the least member of a set of naturals
IndicesOf(L, line) == {i \in 1..Len(L) : L[i] = line}
Least(S) == CHOOSE i \in S : \A j \in S : i <= j

---------------------------------------------------------------------------
(* Claims *)

\* C1: create_email_message fails with InvalidEmail exactly when some address
\* of `to` fails validate_email; the error names the first failing `to`
\* address in list order and carries no message text; cc and bcc are not
\* validated, so invalid addresses there never make it fail.
C1_InvalidEmailIffBadTo ==
    IsSome(composed) =>
        LET r == Unwrap(composed)
            bad == {i \in 1..Len(params.to) : ~validate_email(params.to[i])}
        IN  /\ (~r.ok) <=> (bad # {})
            /\ ~r.ok => /\ r.err = [kind |-> "InvalidEmail", email |-> params.to[Least(bad)]]
                        /\ DOMAIN r = {"ok", "err"}
            /\ r.ok => DOMAIN r = {"ok", "val"}

\* two different invalid `to` addresses: the first one is the one named
C1_Witness ==
    /\ IsSome(composed)
    /\ ~Unwrap(composed).ok
    /\ params.to = <<A_nodot, A_noat>>
    /\ Unwrap(composed).err.email = A_nodot

\* the lines of the message from the body section's Content-Type line on:
\* everything after the MIME-Version line that ends the header block
BodySection ==
    LET L == OutLines
        m == Least(IndicesOf(L, S_MimeVersion))
    IN  SubSeq(L, m + 1, Len(L))

\* the boundary parameter of a multipart Content-Type line with the given head
BoundaryOf(line, head) == SubSeq(line, Len(head) + 1, Len(line) - 1)

\* what the claims call the hint: an absent mime_type counts as plain text
HintOf(p) == IF p.mime_type = None THEN "TextPlain" ELSE p.mime_type[1]
AttachmentCount(p) == IF p.attachments = None THEN 0 ELSE Len(p.attachments[1])

\* C2: the body section is chosen by priority: (1) a non-empty attachments
\* list gives multipart/mixed; (2) else an HTML body with a hint other than
\* plain text gives one multipart/alternative holding a text/plain part and
\* then a text/html part; (3) else an HTML hint gives a single text/html
\* part; (4) otherwise a single text/plain part carrying the plain body.  An
\* attachments list that is present but empty counts as absent.
C2_BodyBranchPriority ==
    (IsSome(composed) /\ Unwrap(composed).ok) =>
        LET S == BodySection
            b == BoundaryOf(S[1], S_CTAlternative)
            contentTypes == {i \in 1..Len(S) : StartsWith(S[i], S_CT)}
        IN  IF AttachmentCount(params) > 0 THEN
                /\ StartsWith(S[1], S_CTMixed)
                /\ S[1][Len(S[1])] = S_Quote[1]
            ELSE IF params.html_body # None /\ HintOf(params) # "TextPlain" THEN
                S = <<S_CTAlternative \o b \o S_Quote, <<>>,
                      S_Dashes \o b, S_CTPlain, S_CTE7bit, <<>>, params.body, <<>>,
                      S_Dashes \o b, S_CTHtml, S_CTE7bit, <<>>, params.html_body[1], <<>>,
                      S_Dashes \o b \o S_Dashes>>
            ELSE IF HintOf(params) = "TextHtml" THEN
                /\ S[1] = S_CTHtml
                /\ contentTypes = {1}
                /\ Len(S) = 4
            ELSE
                S = <<S_CTPlain, S_CTE7bit, <<>>, params.body>>

\* an empty attachments list, an HTML body and an HTML hint: branch (2) applies
C2_Witness ==
    /\ IsSome(composed) /\ Unwrap(composed).ok
    /\ params.attachments = Some(<<>>)
    /\ params.html_body # None
    /\ params.mime_type = Some("TextHtml")
    /\ StartsWith(BodySection[1], S_CTAlternative)

\* the members of a finite set of naturals in ascending order
RECURSIVE Ascending(_)
Ascending(S) == IF S = {} THEN <<>> ELSE <<Least(S)>> \o Ascending(S \ {Least(S)})

\* C8: with n >= 1 attachments the body section is a multipart/mixed section
\* whose boundary opens exactly n+1 sub-parts: first the message body (a
\* nested multipart/alternative with text/plain then text/html when an HTML
\* body is present and the hint is not plain text, else a single text/html
\* part when the hint is HTML, else a single text/plain part), then one
\* sub-part per attachment in list order; a nested alternative section is
\* closed before the first attachment sub-part opens, and the closing
\* delimiter of the mixed boundary is the last line of the output.
C8_MixedStructure ==
    (IsSome(composed) /\ Unwrap(composed).ok /\ AttachmentCount(params) >= 1) =>
        LET S == BodySection
            n == AttachmentCount(params)
            mb == BoundaryOf(S[1], S_CTMixed)
            open == Ascending(IndicesOf(S, S_Dashes \o mb))
            first == SubSeq(S, open[1] + 1, open[2] - 1)
            ab == BoundaryOf(first[1], S_CTAlternative)
            att(k) == params.attachments[1][k]
        IN  /\ S[1] = S_CTMixed \o mb \o S_Quote
            /\ Len(open) = n + 1
            /\ IF params.html_body # None /\ HintOf(params) # "TextPlain" THEN
                   first = <<S_CTAlternative \o ab \o S_Quote, <<>>,
                             S_Dashes \o ab, S_CTPlain, S_CTE7bit, <<>>, params.body, <<>>,
                             S_Dashes \o ab, S_CTHtml, S_CTE7bit, <<>>, params.html_body[1], <<>>,
                             S_Dashes \o ab \o S_Dashes, <<>> >>
               ELSE IF HintOf(params) = "TextHtml" THEN
                   /\ first[1] = S_CTHtml
                   /\ {i \in 1..Len(first) : StartsWith(first[i], S_CT)} = {1}
               ELSE
                   first = <<S_CTPlain, S_CTE7bit, <<>>, params.body, <<>> >>
            /\ \A k \in 1..n :
                  /\ S[open[k + 1] + 1] =
                        S_CT \o att(k).mime_type \o S_Name \o att(k).filename \o S_Quote
                  /\ S[open[k + 1] + 2] = S_CTEBase64
                  /\ S[open[k + 1] + 3] = S_Disposition \o att(k).filename \o S_Quote
            /\ IndicesOf(S, S_Dashes \o mb \o S_Dashes) = {Len(S)}
            /\ LET L == OutLines IN L[Len(L)] = S_Dashes \o mb \o S_Dashes

\* two attachments after a nested alternative section
C8_Witness ==
    /\ IsSome(composed) /\ Unwrap(composed).ok
    /\ AttachmentCount(params) = 2
    /\ params.html_body # None /\ params.mime_type = Some("MultipartAlternative")
    /\ LET L == OutLines IN \E i \in 1..Len(L) : StartsWith(L[i], S_CTAlternative)

\* C10: in a composed message with both a multipart/mixed section and a nested
\* multipart/alternative section, the two boundary values differ, whatever
\* the clock returned (also when both readings are the same).
C10_BoundariesDiffer ==
    (IsSome(composed) /\ Unwrap(composed).ok) =>
        LET L == OutLines
        IN  \A i, j \in 1..Len(L) :
                (StartsWith(L[i], S_CTMixed) /\ StartsWith(L[j], S_CTAlternative)) =>
                    BoundaryOf(L[i], S_CTMixed) # BoundaryOf(L[j], S_CTAlternative)

\* both sections present and both boundaries made from the same clock reading
C10_Witness ==
    /\ IsSome(composed) /\ Unwrap(composed).ok
    /\ LET L == OutLines
       IN  \E i, j \in 1..Len(L) :
              /\ StartsWith(L[i], S_CTMixed)
              /\ StartsWith(L[j], S_CTAlternative)
              /\ \E x \in {generate_boundary(t) : t \in {26, 27}} :
                    /\ BoundaryOf(L[i], S_CTMixed) = S_MixedPrefix \o x
                    /\ BoundaryOf(L[j], S_CTAlternative) = S_AltPrefix \o x

\* the body lines of the k-th attachment sub-part: the lines between the
\* blank line ending its headers and the blank line ending the sub-part
AttachmentBodyOf(S, k) ==
    LET mb == BoundaryOf(S[1], S_CTMixed)
        open == Ascending(IndicesOf(S, S_Dashes \o mb))
        part == SubSeq(S, open[k + 1] + 1,
                       (IF k + 1 < Len(open) THEN open[k + 2] ELSE Len(S)) - 1)
    IN  SubSeq(part, 5, Len(part) - 1)

\* C9: for every attachment byte sequence, the empty one included, the body
\* lines emitted for the attachment are the standard base64 encoding of the
\* bytes cut into lines of exactly 76 characters, only the last line being
\* allowed to be shorter; the concatenated lines base64-decode to the
\* original bytes.
C9_AttachmentWrapRoundTrip ==
    (IsSome(composed) /\ Unwrap(composed).ok) =>
        LET S == BodySection
        IN  \A k \in 1..AttachmentCount(params) :
                LET data == params.attachments[1][k].data
                    bl == AttachmentBodyOf(S, k)
                IN  /\ \A i \in 1..(Len(bl) - 1) : Len(bl[i]) = 76
                    /\ bl # <<>> => (Len(bl[Len(bl)]) >= 1 /\ Len(bl[Len(bl)]) <= 76)
                    /\ Concat(bl) = B64Encode(data, FALSE, TRUE)
                    /\ B64Decode(Concat(bl), FALSE, TRUE) = Ok(data)
                    /\ (data = <<>>) <=> (bl = <<>>)

\* an attachment whose encoding fills two lines and part of a third
C9_Witness ==
    /\ IsSome(composed) /\ Unwrap(composed).ok
    /\ AttachmentCount(params) = 1
    /\ Len(params.attachments[1][1].data) > 114
    /\ LET bl == AttachmentBodyOf(BodySection, 1)
       IN  Len(bl) = 3 /\ Len(bl[1]) = 76 /\ Len(bl[2]) = 76 /\ Len(bl[3]) < 76

---------------------------------------------------------------------------
(* Claims about extraction and reading *)

\* the nodes of a part tree in pre-order: a node, then its children's nodes
RECURSIVE PreOrder(_)
RECURSIVE PreOrderAll(_)
PreOrderAll(parts) ==
    IF parts = <<>> THEN <<>> ELSE PreOrder(Head(parts)) \o PreOrderAll(Tail(parts))

PreOrder(part) == <<part>> \o PreOrderAll(part.parts)

\* the inline data of a node, if it has any
InlineData(node) == IF node.body = None THEN None ELSE node.body[1].data

\* the decoded payload of a node of MIME type exactly `type` whose inline
\* data decodes; the empty string for every other node
DecodedAs(node, type) ==
    IF node.mime_type = Some(type) /\ InlineData(node) # None
       /\ decode_base64url_string(InlineData(node)[1]).ok
    THEN decode_base64url_string(InlineData(node)[1]).val
    ELSE <<>>

ConcatDecoded(nodes, type) == Concat([i \in 1..Len(nodes) |-> DecodedAs(nodes[i], type)])

ThePayload == message.payload[1]

\* C3: extract_email_content returns as text the concatenation, in pre-order,
\* of the decoded payloads of exactly the nodes of type text/plain whose
\* inline data decodes, and as html the same for the text/html nodes; several
\* parts are concatenated, never replaced, and nodes of any other type (other
\* text/* subtypes too) contribute nothing.
C3_PreOrderConcatenation ==
    IsSome(content) =>
        content[1] = [text |-> ConcatDecoded(PreOrder(ThePayload), S_TextPlain),
                      html |-> ConcatDecoded(PreOrder(ThePayload), S_TextHtml)]

\* a text/plain root with two children: a text/csv one and another text/plain one
C3_Witness ==
    /\ IsSome(content)
    /\ ThePayload.mime_type = Some(S_TextPlain)
    /\ Len(ThePayload.parts) = 2
    /\ ThePayload.parts[1].mime_type = Some(M_csv)
    /\ content[1].text = <<104,105,121,111>>    \* "hiyo"

\* whether the node carries inline data that fails base64 or UTF-8 decoding
FailsDecoding(node) ==
    InlineData(node) # None /\ ~decode_base64url_string(InlineData(node)[1]).ok

\* the tree with the inline data of every failing node taken away
RECURSIVE WithoutFailingData(_)
WithoutFailingData(part) ==
    [part EXCEPT
        !.body = IF FailsDecoding(part) THEN Some([part.body[1] EXCEPT !.data = None])
                 ELSE part.body,
        !.parts = [i \in 1..Len(part.parts) |-> WithoutFailingData(part.parts[i])]]

\* C4: both extractors return a result for every part tree and never an
\* error; a node whose inline data fails base64 or UTF-8 decoding contributes
\* nothing, and what every other node contributes (text, HTML, attachment
\* descriptors) is the same as if the failing node carried no data.
C4_DecodeFailureIsSkipped ==
    /\ IsSome(content) =>
          /\ DOMAIN content[1] = {"text", "html"}
          /\ content[1] = extract_email_content(WithoutFailingData(ThePayload))
          /\ \A i \in 1..Len(PreOrder(ThePayload)) :
                FailsDecoding(PreOrder(ThePayload)[i]) =>
                    /\ DecodedAs(PreOrder(ThePayload)[i], S_TextPlain) = <<>>
                    /\ DecodedAs(PreOrder(ThePayload)[i], S_TextHtml) = <<>>
    /\ IsSome(attachments) =>
          attachments[1] = extract_attachments(WithoutFailingData(ThePayload))
    /\ IsSome(message.payload) =>
          /\ DOMAIN extract_email_content(ThePayload) = {"text", "html"}
          /\ DOMAIN extract_attachments(ThePayload) = 1..Len(extract_attachments(ThePayload))

\* a failing node (bad base64, with an attachment id) between two decodable
\* siblings; both walks have run and the siblings' text is there
C4_Witness ==
    /\ IsSome(content) /\ IsSome(attachments)
    /\ Len(ThePayload.parts) = 2
    /\ FailsDecoding(ThePayload)
    /\ ThePayload.parts[1].mime_type = Some(S_TextPlain) /\ ~FailsDecoding(ThePayload.parts[1])
    /\ ThePayload.parts[2].mime_type = Some(S_TextHtml) /\ FailsDecoding(ThePayload.parts[2])
    /\ content[1].text # <<>>
    /\ Len(attachments[1]) = 1

\* the descriptor the claims expect for a node that carries an attachment id
DescriptorOf(node) ==
    LET id == node.body[1].attachment_id[1]
    IN  [id |-> id,
         filename |-> IF node.filename = None THEN S_AttachmentDash \o id ELSE node.filename[1],
         mime_type |-> IF node.mime_type = None THEN S_OctetStream ELSE node.mime_type[1],
         size |-> node.body[1].size]

CarriesAttachmentId(node) == node.body # None /\ node.body[1].attachment_id # None

\* how many times x occurs in the sequence s
Occurrences(s, x) == Cardinality({i \in 1..Len(s) : s[i] = x})

\* C5: extract_attachments returns exactly one descriptor for each node, at
\* any depth and whether or not it also has inline data or children, whose
\* body carries an attachment_id, and none for any other node; the
\* descriptor has the attachment id, the node's filename or
\* "attachment-<id>", the node's MIME type or application/octet-stream, and
\* the body's size.
C5_OneDescriptorPerAttachmentNode ==
    IsSome(attachments) =>
        LET nodes == PreOrder(ThePayload)
            carriers == {i \in 1..Len(nodes) : CarriesAttachmentId(nodes[i])}
            got == attachments[1]
        IN  /\ Len(got) = Cardinality(carriers)
            /\ \A i \in carriers :
                  Occurrences(got, DescriptorOf(nodes[i])) =
                      Cardinality({j \in carriers : DescriptorOf(nodes[j]) = DescriptorOf(nodes[i])})

\* an attachment node with inline data and a child that is an attachment node
\* with neither filename nor MIME type, under a root that is none
C5_Witness ==
    /\ IsSome(attachments)
    /\ ~CarriesAttachmentId(ThePayload)
    /\ Len(ThePayload.parts) = 1
    /\ CarriesAttachmentId(ThePayload.parts[1])
    /\ InlineData(ThePayload.parts[1]) # None
    /\ Len(ThePayload.parts[1].parts) = 1
    /\ ThePayload.parts[1].parts[1].filename = None
    /\ ThePayload.parts[1].parts[1].mime_type = None
    /\ Len(attachments[1]) = 2
    /\ attachments[1][2].filename = S_AttachmentDash \o ID_1
    /\ attachments[1][2].mime_type = S_OctetStream

\* the content read_message extracts: that of the payload, empty without one
ExtractedContent ==
    IF message.payload = None THEN [text |-> <<>>, html |-> <<>>]
    ELSE extract_email_content(message.payload[1])

SnippetOrEmpty == IF message.snippet = None THEN <<>> ELSE message.snippet[1]

C7_HtmlOnlyFlag ==
    (IsSome(read_result) /\ read_result[1].ok) =>
        LET r == read_result[1].val
            c == ExtractedContent
        IN  /\ r.is_html_only <=> (c.text = <<>> /\ c.html # <<>>)
            /\ r.is_html_only => (r.html_body # None /\ r.body = r.html_body[1])
            /\ (c.text = <<>> /\ c.html = <<>>) => ~r.is_html_only

\* a message whose only decodable part is text/html
C7_Witness ==
    /\ IsSome(read_result) /\ read_result[1].ok
    /\ read_result[1].val.is_html_only
    /\ read_result[1].val.body = <<60,98,62>>    \* "<b>"
    /\ read_result[1].val.html_body = Some(<<60,98,62>>)


\* how many times x occurs in s as a run of consecutive elements
CountSub(s, x) ==
    Cardinality({i \in 1..(Len(s) - Len(x) + 1) : SubSeq(s, i, i + Len(x) - 1) = x})

\* C11: composing with an HTML body, the multipart/alternative hint and no
\* attachments gives a message with one boundary token that occurs as a
\* delimiter exactly three times: two lines opening a part and one closing
\* line; the first part is the one text/plain section, the second the one
\* text/html section.
C11_AlternativeBoundaryThrice ==
    (/\ IsSome(composed) /\ Unwrap(composed).ok
     /\ params.html_body # None
     /\ params.mime_type = Some("MultipartAlternative")
     /\ AttachmentCount(params) = 0) =>
        LET L == OutLines
            decl == {i \in 1..Len(L) : StartsWith(L[i], S_CTAlternative)}
            b == BoundaryOf(L[Least(decl)], S_CTAlternative)
            open == Ascending(IndicesOf(L, S_Dashes \o b))
            close == IndicesOf(L, S_Dashes \o b \o S_Dashes)
            types(lo, hi) == {L[i] : i \in {j \in (lo + 1)..(hi - 1) : StartsWith(L[j], S_CT)}}
        IN  /\ Cardinality(decl) = 1
            /\ b # <<>>
            /\ CountSub(Unwrap(composed).val, S_Dashes \o b) = 3
            /\ Len(open) = 2
            /\ Cardinality(close) = 1
            /\ Least(decl) < open[1] /\ open[2] < Least(close)
            /\ types(open[1], open[2]) = {S_CTPlain}
            /\ types(open[2], Least(close)) = {S_CTHtml}
            /\ Cardinality({i \in 1..Len(L) : L[i] = S_CTPlain}) = 1
            /\ Cardinality({i \in 1..Len(L) : L[i] = S_CTHtml}) = 1

\* an alternative message was composed: hint, HTML body, no attachment list entries
C11_Witness ==
    /\ IsSome(composed) /\ Unwrap(composed).ok
    /\ params.html_body = Some(T_html)
    /\ params.mime_type = Some("MultipartAlternative")
    /\ params.attachments = Some(<<>>)
    /\ LET L == OutLines IN L[Len(L)] = S_Dashes \o NextBoundary(26) \o S_Dashes


\* C12: in every message create_email_message returns, every line feed is
\* immediately preceded by a carriage return, whatever the subject, bodies,
\* addresses and attachments of params.
C12_NoBareLineFeed ==
    (IsSome(composed) /\ Unwrap(composed).ok) =>
        LET out == Unwrap(composed).val
        IN  \A i \in 1..Len(out) : out[i] = CH_LF => (i > 1 /\ out[i - 1] = CH_CR)

\* the header lines the fields of params call for, by name, in order
ExpectedHeaderNames(p) ==
    <<S_FromMe, S_To>>
    \o (IF p.cc # None /\ p.cc # Some(<<>>) THEN <<S_Cc>> ELSE <<>>)
    \o (IF p.bcc # None /\ p.bcc # Some(<<>>) THEN <<S_Bcc>> ELSE <<>>)
    \o <<S_Subject>>
    \o (IF p.in_reply_to # None THEN <<S_InReplyTo, S_References>> ELSE <<>>)
    \o <<S_MimeVersion>>

\* C13: every header value create_email_message writes (To, Cc, Bcc, Subject,
\* In-Reply-To, References, attachment file names) is free of raw CR and LF:
\* the output begins with exactly the header lines the fields call for, the
\* body's Content-Type line next and the first blank line after it, no line
\* up to there holding a CR or LF, and every attachment part has exactly its
\* three header lines, none holding a CR or LF.
C13_HeaderValuesSingleLine ==
    (IsSome(composed) /\ Unwrap(composed).ok) =>
        LET L == OutLines
            names == ExpectedHeaderNames(params)
            blank == Least(IndicesOf(L, <<>>))
            n == AttachmentCount(params)
        IN  /\ \A i \in 1..Len(names) : StartsWith(L[i], names[i])
            /\ StartsWith(L[Len(names) + 1], S_CT)
            /\ blank > Len(names) + 1
            /\ \A i \in 1..blank : ~Contains(L[i], CH_CR) /\ ~Contains(L[i], CH_LF)
            /\ n > 0 =>
                  LET mb == BoundaryOf(L[Len(names) + 1], S_CTMixed)
                      open == Ascending(IndicesOf(L, S_Dashes \o mb))
                  IN  \A k \in 1..n :
                         /\ StartsWith(L[open[k + 1] + 1], S_CT)
                         /\ L[open[k + 1] + 2] = S_CTEBase64
                         /\ StartsWith(L[open[k + 1] + 3], S_Disposition)
                         /\ L[open[k + 1] + 4] = <<>>
                         /\ \A j \in 1..3 : /\ ~Contains(L[open[k + 1] + j], CH_CR)
                                            /\ ~Contains(L[open[k + 1] + j], CH_LF)


\* the addresses of a list written one after the other with ", " in between
RECURSIVE CommaSeparated(_)
CommaSeparated(list) ==
    IF list = <<>> THEN <<>>
    ELSE IF Len(list) = 1 THEN list[1]
    ELSE list[1] \o S_CommaSpace \o CommaSeparated(Tail(list))

\* the head of the Content-Type line of the body branch params select
BranchContentType(p) ==
    IF AttachmentCount(p) > 0 THEN S_CTMixed
    ELSE IF p.html_body # None /\ HintOf(p) # "TextPlain" THEN S_CTAlternative
    ELSE IF HintOf(p) = "TextHtml" THEN S_CTHtml
    ELSE S_CTPlain

C15_ValidateEmailExactly ==
    (arg.fn = "validate_email" /\ IsSome(ret)) =>
        LET a == arg.email
            ats == {i \in 1..Len(a) : a[i] = CH_At}
            at == Least(ats)
            dots == {i \in (at + 1)..Len(a) : a[i] = CH_Dot}
        IN  /\ Unwrap(ret) \in BOOLEAN
            /\ Unwrap(ret) <=>
                  /\ Cardinality(ats) = 1
                  /\ at > 1 /\ at < Len(a)
                  /\ \A i \in 1..Len(a) : a[i] # CH_Space
                  /\ dots # {}
                  /\ (at + 1) \notin dots
                  /\ Len(a) \notin dots

\* "a@a." was validated and refused: its domain ends with '.'
C15_Witness ==
    /\ arg = [fn |-> "validate_email", email |-> <<97, CH_At, 97, CH_Dot>>]
    /\ ret = Some(FALSE)


\* C16: decode_base64url(encode_raw_message(b)) succeeds and gives exactly
\* the bytes of b, for every message b, the empty one and non-ASCII text
\* included.
C16_TransportRoundTrip ==
    (arg.fn = "decode_base64url" /\ IsSome(arg.origin) /\ IsSome(ret)) =>
        /\ Unwrap(ret).ok
        /\ Unwrap(ret).val = Unwrap(arg.origin)

\* "hé?>" went through: its encoding "aMOpPz4" is unpadded
C16_Witness ==
    /\ arg.fn = "decode_base64url"
    /\ arg.origin = Some(<<104, 195, 169, 63>>)
    /\ Len(arg.data) = 6
    /\ ret = Some(Ok(<<104, 195, 169, 63>>))

\* C17: decode_base64url tries URL-safe unpadded, then URL-safe padded, then
\* standard padded base64 and returns the result of the first that succeeds;
\* it returns an error exactly when all three reject the input.
C17_FirstDecoderThatSucceeds ==
    (arg.fn = "decode_base64url" /\ IsSome(ret)) =>
        LET r == Unwrap(ret)
            tries == <<B64Decode(arg.data, TRUE, FALSE),
                       B64Decode(arg.data, TRUE, TRUE),
                       B64Decode(arg.data, FALSE, TRUE)>>
            good == {k \in 1..3 : tries[k].ok}
        IN  /\ (~r.ok) <=> (good = {})
            /\ good # {} => r = tries[Least(good)]

\* "+/8=" is rejected by both URL-safe variants and decoded by the standard one
C17_Witness ==
    /\ arg.fn = "decode_base64url"
    /\ arg.data = <<43, 47, 56, 61>>
    /\ ~B64Decode(arg.data, TRUE, FALSE).ok
    /\ ~B64Decode(arg.data, TRUE, TRUE).ok
    /\ ret = Some(Ok(<<251, 255>>))


\* C18: encode_mime_header(t) is t itself when every character of t is ASCII
\* and none is CR or LF; for every other t it is "=?UTF-8?B?" B "?=" with B
\* the standard padded base64 of t's UTF-8 bytes, so that decoding B and
\* reading the bytes as UTF-8 gives back t.
C18_EncodedWord ==
    (arg.fn = "encode_mime_header" /\ IsSome(ret)) =>
        LET t == arg.text
            r == Unwrap(ret)
            plain == \A i \in 1..Len(t) : t[i] <= 127 /\ t[i] \notin {CH_CR, CH_LF}
            B == SubSeq(r, Len(S_EncodedWordOpen) + 1, Len(r) - Len(S_EncodedWordClose))
        IN  IF plain THEN r = t
            ELSE /\ r = S_EncodedWordOpen \o B \o S_EncodedWordClose
                 /\ B = B64Encode(t, FALSE, TRUE)
                 /\ Len(B) % 4 = 0
                 /\ B64Decode(B, FALSE, TRUE) = Ok(t)
                 /\ IsUtf8(B64Decode(B, FALSE, TRUE).val)

\* "hé" was encoded: its base64 "aMOp" sits between the two markers
C18_Witness ==
    /\ arg = [fn |-> "encode_mime_header", text |-> <<104, 195, 169>>]
    /\ ret = Some(S_EncodedWordOpen \o <<97, 77, 79, 112>> \o S_EncodedWordClose)


\* a name with its ASCII letters in upper case
UpperCased(s) == [i \in 1..Len(s) |-> IF s[i] >= 97 /\ s[i] <= 122 THEN s[i] - 32 ELSE s[i]]

\* the headers of the descendants of a part
RECURSIVE DescendantHeaders(_)
DescendantHeaders(part) ==
    UNION {{c.headers[i] : i \in 1..Len(c.headers)} \cup DescendantHeaders(c) :
              c \in {part.parts[k] : k \in 1..Len(part.parts)}}

\* C19: find_header(part, name) returns the value of the first header of
\* part's own list whose name equals `name` up to letter case, and nothing
\* when there is none; a header of a descendant part is never returned, and
\* of several matching headers only the first in list order is.
C19_FirstOwnHeader ==
    (arg.fn = "find_header" /\ IsSome(ret)) =>
        LET hs == arg.part.headers
            match == {i \in 1..Len(hs) : UpperCased(hs[i].name) = UpperCased(arg.name)}
        IN  /\ match = {} => Unwrap(ret) = None
            /\ match # {} =>
                  /\ Unwrap(ret) = Some(hs[Least(match)].value)
                  /\ \A i \in match \ {Least(match)} :
                        hs[i].value # hs[Least(match)].value => Unwrap(ret) # Some(hs[i].value)
            /\ \A h \in DescendantHeaders(arg.part) : Unwrap(ret) # Some(h.value)

\* "subject" asked of a part with "Subjec", "SUBJECT", "Subject" in this
\* order and a child with its own "subject": the second header is returned
C19_Witness ==
    /\ arg.fn = "find_header"
    /\ arg.name = H_subject
    /\ Len(arg.part.headers) = 3
    /\ arg.part.headers[1].name = HD_Subjec
    /\ arg.part.headers[2].name = HD_SUBJECT
    /\ arg.part.headers[3].name = HD_Subject
    /\ Len(arg.part.parts) = 1
    /\ arg.part.parts[1].headers[1].name = H_subject
    /\ ret = Some(Some(<<50>>))


\* the addresses of params.to that fail validation, by position
BadToPositions == {i \in 1..Len(params.to) : ~validate_email(params.to[i])}

\* C20 as stated: when send_email or create_draft is called with a `to`
\* address that fails validation, the caller receives the invalid-address
\* error naming that address and no send or draft request is issued,
\* whatever the state of the stored credentials.
C20_InvalidAddressWhateverCredentials ==
    (call.pc = "done" /\ BadToPositions # {}) =>
        /\ outcome = Some(Err([kind |-> "InvalidEmail",
                               email |-> params.to[Least(BadToPositions)]]))
        /\ api_requests = <<>>

\* C20, amended: when send_email or create_draft is called with a `to`
\* address that fails validation, no send or draft request is issued,
\* whatever the state of the stored credentials; the caller receives the
\* invalid-address error naming the first failing address once
\* get_access_token has returned a token, which it does when credentials are
\* stored and the token has no expiry date or expires in 300 seconds or
\* more; when get_access_token fails (no stored credentials, or a refresh
\* that fails) the caller receives that error instead.
C20_InvalidAddressAfterToken ==
    (call.pc # "idle" /\ BadToPositions # {}) =>
        /\ api_requests = <<>>
        /\ call.pc = "done" =>
              /\ IsSome(outcome) /\ ~Unwrap(outcome).ok
              /\ IF IsSome(call.token) THEN
                     outcome = Some(Err([kind |-> "InvalidEmail",
                                         email |-> params.to[Least(BadToPositions)]]))
                 ELSE
                     Unwrap(outcome).err.kind \in
                         {"CredentialsNotFound", "TokenRefreshFailed", "Http", "Io"}
              /\ credentials = None => outcome = Some(Err([kind |-> "CredentialsNotFound"]))
              /\ (/\ credentials # None
                  /\ \/ credentials[1].expiry_date = None
                     \/ credentials[1].expiry_date[1] - unix_now >= 300)
                    => IsSome(call.token)

\* a draft for a valid and then an invalid address, with a token expiring in
\* exactly 300 seconds: the invalid-address error names the second address
C20_Witness ==
    /\ call.pc = "done"
    /\ call.op = "create_draft"
    /\ params.to = <<A_good, A_nodot>>
    /\ credentials # None
    /\ credentials[1].expiry_date = Some(1300)
    /\ call.token = Some("at0")
    /\ outcome = Some(Err([kind |-> "InvalidEmail", email |-> A_nodot]))
    /\ api_requests = <<>>


\* C30: without a content-type hint create_email_message gives exactly the
\* output it gives with an explicit plain-text hint and otherwise equal
\* params, so a supplied HTML body is emitted in no part; and the send_email /
\* draft_email tool passes no hint when mimeType is absent, "text/plain" or
\* a value it does not recognise.
C30_NoHintIsPlainText ==
    (arg.fn = "handle_send_email" /\ params # IdleParams) =>
        /\ (arg.args.mime_type \notin {Some(S_TextHtml), Some(S_MultipartAlternative)})
              <=> (params.mime_type = None)
        /\ (IsSome(composed) /\ params.mime_type = None) =>
              /\ composed = Some(create_email_message(
                                    [params EXCEPT !.mime_type = Some("TextPlain")], arg.clock))
              /\ (Unwrap(composed).ok /\ IsSome(params.html_body)) =>
                    CountSub(Unwrap(composed).val, Unwrap(params.html_body)) = 0

\* an unrecognised mimeType with an HTML body and an attachment: composed
\* without a hint, as multipart/mixed around one text/plain part
C30_Witness ==
    /\ arg.fn = "handle_send_email"
    /\ arg.args.mime_type = Some(T_bogus)
    /\ arg.args.html_body = Some(T_html)
    /\ arg.args.attachments = Some(<<1>>)
    /\ params.mime_type = None
    /\ IsSome(composed) /\ Unwrap(composed).ok
    /\ LET L == OutLines IN \E i \in 1..Len(L) : L[i] = S_CTPlain


\* the part of a line that does not depend on the boundary token: the head of
\* a line declaring a boundary or of a delimiter line, else the whole line
WithoutToken(line) ==
    LET heads == {S_CTMixed, S_CTAlternative, S_Dashes \o S_MixedPrefix,
                  S_Dashes \o S_AltPrefix, S_Dashes \o S_NextPrefix}
        mine == {h \in heads : StartsWith(line, h)}
    IN  IF mine = {} THEN line ELSE CHOOSE h \in mine : TRUE

C22_CallNeverBlocked ==
    call.pc \notin {"idle", "done"} => ENABLED NextSend


\* C23: after a refresh whose response is successful the credentials in the
\* file and those in memory are equal and carry the new access token, with
\* the response's refresh token or, failing that, the previous one; after a
\* failed refresh both are unchanged. The file and the memory start equal, so
\* at every point of a call they are equal, and once a refresh token was sent
\* the stored credentials still hold one
C23_FileEqualsMemory ==
    /\ cred_file = credentials
    /\ call.refresh_token # None =>
          /\ IsSome(cred_file)
          /\ Unwrap(cred_file).refresh_token \in {call.refresh_token, Some("rt1")}


\* the (id, error) pairs of the ids whose attempt did not succeed, in list order
RECURSIVE FailedOf(_, _)
FailedOf(ids, answers) ==
    IF ids = <<>> THEN <<>>
    ELSE (IF Head(answers) = "success" THEN <<>>
          ELSE <<<<Head(ids), FailureText(Head(answers))>>>>)
         \o FailedOf(Tail(ids), Tail(answers))

\* what a finished batch call must have done and returned, whatever the batch size
BatchResultRight ==
    call.pc = "done" =>
       /\ IsSome(outcome) /\ Unwrap(outcome).ok
       /\ [i \in 1..Len(api_requests) |-> api_requests[i].message_id] = call.message_ids
       /\ LET r == Unwrap(outcome).val
          IN  /\ r.success_count + r.failure_count = Len(call.message_ids)
              /\ r.failures = FailedOf(call.message_ids, call.answers)
              /\ r.failure_count = Len(r.failures)

\* C28: batch_modify_messages and batch_delete_messages always complete with
\* a BatchOperationResult, for every list of ids and every batch size, zero
\* and sizes above the list length included: every id is attempted once in
\* list order whatever the fate of the ids before it, the two counts add up
\* to the number of ids, failures lists the failed ids in order, and the
\* result is the same for every batch size
C28_BatchAlwaysCompletes ==
    /\ call.pc # "panicked"
    /\ BatchResultRight


\* the DELETE requests among the requests issued
DeleteRequests == SelectSeq(api_requests, LAMBDA r : r.method = "DELETE")

\* C29: LabelManager::delete sends no DELETE request for a label whose type
\* is "system" nor for one whose lookup failed: the label is fetched first;
\* a failed fetch returns LabelNotFound or the lookup error, a fetched system
\* label returns CannotDeleteSystemLabel, both without a DELETE; only
\* otherwise is the DELETE issued
C29_NoDeleteOfSystemLabel ==
    /\ DeleteRequests # <<>> =>
          /\ api_requests = <<[method |-> "GET", label_id |-> call.label_id],
                               [method |-> "DELETE", label_id |-> call.label_id]>>
          /\ IsSome(call.label)
          /\ Unwrap(call.label).label_type # Some("system")
    /\ call.pc = "done" /\ call.label = None =>
          /\ DeleteRequests = <<>>
          /\ ~Unwrap(outcome).ok
          /\ Unwrap(outcome).err.kind \in {"LabelNotFound", "RequestFailed", "Http"}
    /\ call.pc = "done" /\ IsSome(call.label)
          /\ Unwrap(call.label).label_type = Some("system") =>
          /\ DeleteRequests = <<>>
          /\ Unwrap(outcome) = Err([kind |-> "CannotDeleteSystemLabel",
                                    label_id |-> call.label_id])
    /\ call.pc = "done" /\ IsSome(call.label)
          /\ Unwrap(call.label).label_type # Some("system") =>
          Len(DeleteRequests) = 1

\* a system label was fetched and refused, on a run where a GET was made
C29_Witness ==
    /\ call.pc = "done"
    /\ IsSome(call.label) /\ Unwrap(call.label).label_type = Some("system")
    /\ Len(api_requests) = 1
    /\ ~Unwrap(outcome).ok


\* the responses written for the lines read, in the order of the lines
RECURSIVE ResponsesOf(_)
ResponsesOf(h) ==
    IF h = <<>> THEN <<>> ELSE Head(h).responses \o ResponsesOf(Tail(h))

\* line i has been dealt with: a later line was read, or the next is about to be
Complete(i) == i < Len(handled) \/ server_pc = "read"

\* C24: the stdio server answers in order and one for one: a line that
\* parses as a request with method initialize, ping, tools/list, tools/call
\* or an unknown method gets exactly one response, written before the next
\* line is read, whose id is the request's; a blank line gets none; a line
\* that does not parse gets one parse-error response (-32700) with id 0; an
\* unknown method gets one error response with code -32601
C24_OneResponsePerRequest ==
    /\ stdout = ResponsesOf(handled)
    /\ \A i \in 1..Len(handled) :
          Complete(i) =>
             LET line == handled[i].line
                 r == handled[i].responses
                 q == JsonRpcRequest_from_str(line)
             IN  /\ IsBlank(line) => r = <<>>
                 /\ ~IsBlank(line) /\ ~q.ok =>
                       /\ Len(r) = 1
                       /\ r[1].id = RequestId_Number(0)
                       /\ IsSome(r[1].error) /\ Unwrap(r[1].error).code = -32700
                 /\ q.ok /\ q.val.method \in {INITIALIZE, PING, LIST_TOOLS, CALL_TOOL} =>
                       /\ Len(r) = 1
                       /\ r[1].id = q.val.id
                 /\ q.ok /\ q.val.method \notin {INITIALIZE, INITIALIZED, PING, LIST_TOOLS,
                                                 CALL_TOOL} =>
                       /\ Len(r) = 1
                       /\ r[1].id = q.val.id
                       /\ IsSome(r[1].error) /\ Unwrap(r[1].error).code = -32601

\* a tool call was answered, then a request with an unknown method, and the
\* next line is about to be read
C24_Witness ==
    /\ server_pc = "read"
    /\ Len(handled) = 2 /\ Len(stdout) = 2
    /\ handled[1].line.method = Some(CALL_TOOL) /\ stdout[1].id = RequestId_Number(3)
    /\ IsSome(stdout[2].error) /\ Unwrap(stdout[2].error).code = -32601


\* a notifications/initialized message: a JSON-RPC notification, without id
IsInitializedNotification(line) ==
    /\ line.top = "object" /\ line.jsonrpc = "string"
    /\ line.id.t = "absent"
    /\ line.method = Some(INITIALIZED)

\* C25: a notifications/initialized message, which carries no id, never
\* causes a response line to be written, and once it has been received the
\* initialized flag is true and stays true for the rest of the session
C25_InitializedNotificationSilent ==
    \A i \in 1..Len(handled) :
       Complete(i) /\ IsInitializedNotification(handled[i].line) =>
          /\ handled[i].responses = <<>>
          /\ initialized


\* C26: every JSON-RPC response the server builds has exactly one of result
\* and error set: those of JsonRpcResponse::success a result and no error,
\* those of JsonRpcResponse::error an error and no result, and no path of
\* the server writes a response with both or neither
C26_ResultXorError ==
    \A i \in 1..Len(stdout) :
       LET r == stdout[i]
       IN  /\ IsSome(r.result) # IsSome(r.error)
           /\ IsSome(r.result) => r = JsonRpcResponse_success(r.id, Unwrap(r.result))
           /\ IsSome(r.error) => r = JsonRpcResponse_error(r.id, Unwrap(r.error))

\* a session that wrote a success response and an error response
C26_Witness ==
    /\ Len(stdout) = 2
    /\ IsSome(stdout[1].result) /\ stdout[1].error = None
    /\ IsSome(stdout[2].error) /\ stdout[2].result = None


\* the lines read so far that parse as a tools/call request and were answered
ToolCallsAnswered ==
    {i \in 1..Len(handled) :
        LET q == JsonRpcRequest_from_str(handled[i].line)
        IN  q.ok /\ q.val.method = CALL_TOOL /\ handled[i].responses # <<>>}

\* C27: a tools/call request never yields a JSON-RPC error response: every
\* failure of the call (missing or malformed params, unknown tool, invalid
\* arguments, an error of the Gmail client) is a success response whose
\* result has isError = true and a single text item beginning with
\* "Error: ", a successful call gives isError = false with exactly one text
\* item, and the call is served whether or not initialized was set
C27_ToolCallNeverJsonRpcError ==
    \A i \in ToolCallsAnswered :
       LET line == handled[i].line
           r == handled[i].responses[1]
           result == Unwrap(r.result)
           failed == \/ line.params.t \in {"absent", "null"}
                     \/ ~CallToolParams_from_value(line.params).ok
                     \/ line.params.name # Some(S_send_email)
                     \/ result.content[1].text = S_ErrorPrefix \o T_denied
       IN  /\ r.error = None /\ IsSome(r.result)
           /\ result.kind = "CallToolResult"
           /\ Len(result.content) = 1 /\ result.content[1].type = "text"
           /\ result.is_error = failed
           /\ result.is_error => StartsWith(result.content[1].text, S_ErrorPrefix)
           /\ ~result.is_error => result.content[1].text = T_sent

\* a session in which a failing and then a successful tool call were
\* answered without initialized ever being set
C27_Witness ==
    /\ Len(handled) = 2 /\ ToolCallsAnswered = {1, 2}
    /\ Unwrap(stdout[1].result).is_error
    /\ ~Unwrap(stdout[2].result).is_error
    /\ ~initialized

====
